---- MODULE Spec2Model ----
(***************************************************************************)
(* Commit Analytics Dashboard (github-monitor-analysis).                   *)
(*                                                                         *)
(* The React components are modelled as one state machine.  Every handler  *)
(* (event callback, effect, promise continuation) is one atomic action:    *)
(* JavaScript runs each of them to completion on the UI thread, and the    *)
(* state updates a handler makes are committed together.  An `await` ends  *)
(* an action; the continuation is a separate action.                       *)
(*                                                                         *)
(* Strings that the code inspects (cells, URLs) are sequences of           *)
(* characters.  Instants are integers counting ticks since the epoch in    *)
(* UTC, TicksPerDay ticks to the day; the local time zone is a fixed       *)
(* offset tz (no daylight-saving transitions inside a session).            *)
(***************************************************************************)
EXTENDS Integers, Sequences, FiniteSets, Bags, TLC

VARIABLES
    \* pages/Index.tsx
    teams, selectedTeam, error, githubToken,
    \* components/FileUpload.tsx
    isProcessing, uploadedFile, file,
    \* components/CommitAnalytics.tsx; inflight holds the suspended calls of
    \* fetchCommitData, each with the request it awaits
    analytics, loading, caError, dateRange, inflight,
    \* GitActivityAnalysis, RepositoryInfo and CommitQualityAnalysis, children
    \* of CommitAnalytics; quality.pending holds the suspended calls of
    \* analyzeCommitQuality, each with the commits it will analyse
    activity, repoInfo, quality,
    \* components/GitHubTokenManager.tsx; storage is localStorage.github_token,
    \* validating holds the suspended calls of validateToken
    token, tokenStatus, storage, validating,
    \* environment of the session: local time-zone offset in ticks
    tz,
    \* harness of the pure functions: the argument and the result
    arg, res,
    \* the handler that ran last and what it did (history, not program state)
    last

idxVars == <<teams, selectedTeam, error, githubToken>>
upVars == <<isProcessing, uploadedFile, file>>
caVars == <<analytics, loading, caError, dateRange, inflight>>
subVars == <<activity, repoInfo, quality>>
tokVars == <<token, tokenStatus, storage, validating>>
fnVars == <<arg, res>>
dashVars == <<caVars, subVars, tokVars>>
vars == <<idxVars, upVars, dashVars, tz, fnVars, last>>

\* null / undefined
None == "null"

Min(a, b) == IF a < b THEN a ELSE b
Max(a, b) == IF a > b THEN a ELSE b

\* the white space of the strings of the model
Whitespace == {" ", "\n"}

\* String.prototype.trim
RECURSIVE TrimStart(_)
TrimStart(str) ==
    IF str # <<>> /\ Head(str) \in Whitespace THEN TrimStart(Tail(str)) ELSE str
RECURSIVE TrimEnd(_)
TrimEnd(str) ==
    IF str # <<>> /\ str[Len(str)] \in Whitespace
    THEN TrimEnd(SubSeq(str, 1, Len(str) - 1)) ELSE str
Trim(str) == TrimEnd(TrimStart(str))

\* the pure-function harness before anything is applied
NoArg == [fn |-> "none"]
NoRes == [done |-> FALSE]

\* history: the handler that ran and the number of requests it sent
Did(op, sent) == [op |-> op, sent |-> sent]

\* all sequences over S of length at most n
SeqUpTo(S, n) == UNION {[1..k -> S] : k \in 0..n}

(***************************************************************************)
(* Roster Loader: components/FileUpload.tsx                                *)
(***************************************************************************)

MaxRows == 2

\* a cell as sheet_to_json delivers it: a string or a number
Str(s) == [type |-> "string", v |-> s]
Num(s) == [type |-> "number", v |-> s]

\* JavaScript truthiness of a cell: "" and 0 are falsy
Truthy(c) == IF c.type = "string" THEN c.v # <<>> ELSE c.v # <<"0">>

GoodUrl == <<"h:", "/", "/", "a", "/", "a", "/", "b">>
OtherUrl == <<"h:", "/", "/", "a", "/", "b", "/", "a">>
OneSegmentUrl == <<"h:", "/", "/", "a", "/", "a">>
NotAUrl == <<"a", "/", "b">>

NameCells == {Str(<<>>), Str(<<"A">>), Str(<<"B">>), Num(<<"7">>)}
UrlCells ==
    {Str(<<>>), Str(GoodUrl), Str(OtherUrl), Str(OneSegmentUrl), Num(<<"0">>)}

\* a row object: a blank cell leaves its key out of the object
Rows ==
    {[k \in {} |-> Str(<<>>)]}
    \cup {[k \in {"TeamName"} |-> n] : n \in NameCells}
    \cup {[k \in {"GitHubURL"} |-> u] : u \in UrlCells}
    \cup {[TeamName |-> n, GitHubURL |-> u] : n \in NameCells, u \in UrlCells}

\* what XLSX.read + sheet_to_json make of a dropped file: the rows, or a throw
ParseFailure == "Failed to parse"
Files ==
    {[parsed |-> TRUE, rows |-> r] : r \in SeqUpTo(Rows, MaxRows)}
    \cup {[parsed |-> FALSE, rows |-> <<>>]}

EmptyFileError == "Excel file is empty"
SchemaError == "Excel file must contain \"TeamName\" and \"GitHubURL\" columns"
NoValidRowsError == "No valid team data found in Excel file"

Has(row, key) == key \in DOMAIN row

firstRowLacksColumnMutant(firstRow) ==
    ~Has(firstRow, "TeamName") /\ ~Has(firstRow, "GitHubURL")

\* FileUpload.tsx:40
firstRowLacksColumn(firstRow) ==
    ~Has(firstRow, "TeamName") \/ ~Has(firstRow, "GitHubURL")

isValidTeamMutant(team) ==
    /\ Has(team, "TeamName") /\ Has(team, "GitHubURL")
    /\ team.TeamName.type = "string"
    /\ team.GitHubURL.type = "string"

\* FileUpload.tsx:45-49, the filter predicate
isValidTeam(team) ==
    /\ Has(team, "TeamName") /\ Truthy(team.TeamName)
    /\ Has(team, "GitHubURL") /\ Truthy(team.GitHubURL)
    /\ team.TeamName.type = "string"
    /\ team.GitHubURL.type = "string"

\* FileUpload.tsx:26-55: the body of the try block, [ok, teams] or [ok, message]
parseRoster(f) ==
    LET jsonData == f.rows
    IN
    IF ~f.parsed THEN [ok |-> FALSE, message |-> ParseFailure]
    ELSE IF Len(jsonData) = 0 THEN [ok |-> FALSE, message |-> EmptyFileError]
    ELSE IF firstRowLacksColumn(jsonData[1])
         THEN [ok |-> FALSE, message |-> SchemaError]
    ELSE LET validTeams == SelectSeq(jsonData, isValidTeam)
         IN IF Len(validTeams) = 0
            THEN [ok |-> FALSE, message |-> NoValidRowsError]
            ELSE [ok |-> TRUE, teams |-> validTeams]

FileName == "teams.xlsx"
NoFile == [parsed |-> FALSE, rows |-> <<>>]

\* Index.tsx:73-85: the upload screen is shown while there is no team
UploadScreen == teams = <<>>

\* FileUpload.tsx:65-70 and 22-27: a file is dropped, processing starts and
\* suspends at `await file.arrayBuffer()`.  The dropzone is rendered only
\* while no file name is shown (line 100) and is disabled while processing.
onDrop(f) ==
    /\ UploadScreen /\ ~isProcessing /\ uploadedFile = None
    /\ isProcessing' = TRUE
    /\ uploadedFile' = FileName
    /\ file' = f
    /\ last' = Did("onDrop", 0)
    /\ UNCHANGED <<idxVars, dashVars, tz, fnVars>>

\* FileUpload.tsx:83-85
clearFile ==
    /\ UploadScreen /\ uploadedFile # None
    /\ uploadedFile' = None
    /\ last' = Did("clearFile", 0)
    /\ UNCHANGED <<idxVars, isProcessing, file, dashVars, tz, fnVars>>

handleDataLoadedMutant(loadedTeams) ==
    /\ teams' = loadedTeams
    /\ selectedTeam' = 0
    /\ error' = error

\* Index.tsx:21-25
handleDataLoaded(loadedTeams) ==
    /\ teams' = loadedTeams
    /\ selectedTeam' = 0
    /\ error' = None

\* Index.tsx:27-29
handleError(errorMessage) ==
    /\ error' = errorMessage
    /\ UNCHANGED <<teams, selectedTeam>>

\* FileUpload.tsx:27-62: the continuation of processExcelFile
processExcelFile ==
    /\ isProcessing
    /\ LET r == parseRoster(file)
       IN IF r.ok
          THEN /\ handleDataLoaded(r.teams)
               /\ uploadedFile' = uploadedFile
               /\ last' = Did("onDataLoaded", 0)
          ELSE /\ handleError(r.message)
               /\ uploadedFile' = None
               /\ last' = Did("onError", 0)
    /\ isProcessing' = FALSE
    /\ file' = NoFile
    /\ UNCHANGED <<githubToken, dashVars, tz, fnVars>>

\* Index and FileUpload as constructed
InitIndex ==
    /\ teams = <<>> /\ selectedTeam = 0 /\ error = None /\ githubToken = <<>>
    /\ isProcessing = FALSE /\ uploadedFile = None /\ file = NoFile

\* the components of the dashboard screen, before they are mounted
NotMounted == [mounted |-> FALSE]
InitDashboard ==
    /\ analytics = [totalCommits |-> -1] /\ loading = TRUE /\ caError = <<>>
    /\ dateRange = [from |-> -1, to |-> -1] /\ inflight = EmptyBag
    /\ activity = NotMounted /\ repoInfo = NotMounted /\ quality = NotMounted
    /\ token = <<>> /\ tokenStatus = "none" /\ validating = EmptyBag

InitUpload ==
    /\ InitIndex /\ InitDashboard
    /\ storage = <<>>
    /\ tz = 0 /\ arg = NoArg /\ res = NoRes
    /\ last = Did("init", 0)

\* this step is the continuation of processExcelFile, run on `file`
Processed == isProcessing /\ ~isProcessing'

NextUpload ==
    \/ \E f \in Files : onDrop(f)
    \/ clearFile
    \/ processExcelFile

SpecUpload == InitUpload /\ [][NextUpload]_vars

(***************************************************************************)
(* Claims on the Roster Loader                                             *)
(***************************************************************************)

\* the predicate of the claims: both fields present, strings and non-empty
BothFieldsStrings(row) ==
    /\ {"TeamName", "GitHubURL"} \subseteq DOMAIN row
    /\ \A k \in {"TeamName", "GitHubURL"} :
          row[k].type = "string" /\ Len(row[k].v) > 0

\* the subsequence of rows satisfying the predicate, in the original order
RECURSIVE RowsKept(_)
RowsKept(rows) ==
    IF rows = <<>> THEN <<>>
    ELSE (IF BothFieldsStrings(Head(rows)) THEN <<Head(rows)>> ELSE <<>>)
         \o RowsKept(Tail(rows))

HasKeptRow(rows) == \E i \in 1..Len(rows) : BothFieldsStrings(rows[i])
LacksBothFields(row) == DOMAIN row \cap {"TeamName", "GitHubURL"} = {}
LacksAField(row) == ~({"TeamName", "GitHubURL"} \subseteq DOMAIN row)

Delivered(rows) ==
    /\ teams' = RowsKept(rows)
    /\ Len(teams') = Cardinality({i \in 1..Len(rows) : BothFieldsStrings(rows[i])})
    /\ last'.op = "onDataLoaded"

Rejected(message) ==
    /\ error' = message
    /\ last'.op = "onError"
    /\ teams' = teams

C2_AsStated ==
    [][Processed /\ file.parsed =>
          /\ Len(file.rows) = 0 => Rejected(EmptyFileError)
          /\ Len(file.rows) > 0 /\ LacksBothFields(file.rows[1]) => Rejected(SchemaError)
          /\ Len(file.rows) > 0 /\ ~LacksBothFields(file.rows[1]) /\ ~HasKeptRow(file.rows)
               => Rejected(NoValidRowsError)]_vars

\* C2 amended: EmptyFileError on zero rows, otherwise SchemaError when the
\* first row lacks at least one of the required fields, otherwise
\* NoValidRowsError when no row passes the filter; each failure calls onError
\* with the message and does not call onDataLoaded.
C2_Failures ==
    [][Processed /\ file.parsed =>
          /\ Len(file.rows) = 0 => Rejected(EmptyFileError)
          /\ Len(file.rows) > 0 /\ LacksAField(file.rows[1]) => Rejected(SchemaError)
          /\ Len(file.rows) > 0 /\ ~LacksAField(file.rows[1]) /\ ~HasKeptRow(file.rows)
               => Rejected(NoValidRowsError)]_vars

\* the last of the three failures has been reported
C2_Witness ==
    last.op = "onError" /\ error = NoValidRowsError /\ teams = <<>>

\* C3: a successful upload replaces the team list by the loaded teams,
\* resets the selected team and clears the page error; a failed upload sets
\* the page error and leaves the team list and the selected team unchanged.
C3_UploadFrame ==
    [][Processed =>
          /\ last'.op \in {"onDataLoaded", "onError"}
          /\ last'.op = "onDataLoaded" =>
                teams' = RowsKept(file.rows) /\ selectedTeam' = 0 /\ error' = None
          /\ last'.op = "onError" =>
                /\ error' \in {ParseFailure, EmptyFileError, SchemaError,
                               NoValidRowsError}
                /\ teams' = teams /\ selectedTeam' = selectedTeam]_vars

\* a successful upload has replaced the list and left no page error
C3_Witness ==
    last.op = "onDataLoaded" /\ teams # <<>> /\ selectedTeam = 0 /\ error = None


(***************************************************************************)
(* Repository Locator Parser: extractRepoInfo, once per component          *)
(***************************************************************************)

MaxUrlLen == 6

\* the characters of a URL string; "h:" stands for the scheme "https:"
UrlChars == {"h:", "/", "a", "b", "?"}

\* strings over UrlChars in which the scheme, if any, comes first
UrlStrings ==
    {s \in SeqUpTo(UrlChars, MaxUrlLen) : \A i \in 2..Len(s) : s[i] # "h:"}

\* the index of the first character of s at or after i that is in C, else Len(s)+1
RECURSIVE IndexOf(_, _, _)
IndexOf(s, C, i) ==
    IF i > Len(s) THEN Len(s) + 1
    ELSE IF s[i] \in C THEN i ELSE IndexOf(s, C, i + 1)

\* the index of the first character of s at or after i that is not in C
RECURSIVE IndexOfNot(_, _, _)
IndexOfNot(s, C, i) ==
    IF i > Len(s) THEN Len(s) + 1
    ELSE IF s[i] \notin C THEN i ELSE IndexOfNot(s, C, i + 1)

\* new URL(s) without a base, for the scheme https: a string without scheme
\* or without host throws; slashes after the scheme are skipped, the host runs
\* to the next "/" or "?", the path from there to the "?"; an empty path is "/"
NewURL(s) ==
    IF s = <<>> \/ s[1] # "h:" THEN [ok |-> FALSE, pathname |-> <<>>]
    ELSE LET hostStart == IndexOfNot(s, {"/"}, 2)
             hostEnd == IndexOf(s, {"/", "?"}, hostStart)
             pathEnd == IndexOf(s, {"?"}, hostEnd)
             path == SubSeq(s, hostEnd, pathEnd - 1)
         IN IF hostEnd = hostStart THEN [ok |-> FALSE, pathname |-> <<>>]
            ELSE [ok |-> TRUE,
                  pathname |-> IF path = <<>> THEN <<"/">> ELSE path]

\* String.prototype.split('/'): the pieces between the separators
RECURSIVE Split(_)
Split(s) ==
    LET i == IndexOf(s, {"/"}, 1)
    IN IF i > Len(s) THEN <<s>>
       ELSE <<SubSeq(s, 1, i - 1)>> \o Split(SubSeq(s, i + 1, Len(s)))

\* .filter(Boolean) on strings: the empty string is dropped
NonEmpty(piece) == piece # <<>>

InvalidUrl == [ok |-> FALSE, owner |-> <<>>, repo |-> <<>>]

extractRepoInfoMutant(githubUrl) ==
    LET url == NewURL(githubUrl)
        pathParts == SelectSeq(Split(url.pathname), NonEmpty)
    IN IF url.ok /\ Len(pathParts) >= 1
       THEN [ok |-> TRUE, owner |-> pathParts[1],
             repo |-> pathParts[Min(2, Len(pathParts))]]
       ELSE InvalidUrl

\* CommitAnalytics.tsx:68-79; a throw is the result InvalidUrl
extractRepoInfo(githubUrl) ==
    LET url == NewURL(githubUrl)
        pathParts == SelectSeq(Split(url.pathname), NonEmpty)
    IN IF url.ok /\ Len(pathParts) >= 2
       THEN [ok |-> TRUE, owner |-> pathParts[1], repo |-> pathParts[2]]
       ELSE InvalidUrl

\* CommitQualityAnalysis.tsx:55-66
extractRepoInfoQuality(url) ==
    LET urlObj == NewURL(url)
        pathParts == SelectSeq(Split(urlObj.pathname), NonEmpty)
    IN IF urlObj.ok /\ Len(pathParts) >= 2
       THEN [ok |-> TRUE, owner |-> pathParts[1], repo |-> pathParts[2]]
       ELSE InvalidUrl

\* GitActivityAnalysis (unnamed/part_000:64-75)
extractRepoInfoActivity(url) ==
    LET urlObj == NewURL(url)
        pathParts == SelectSeq(Split(urlObj.pathname), NonEmpty)
    IN IF urlObj.ok /\ Len(pathParts) >= 2
       THEN [ok |-> TRUE, owner |-> pathParts[1], repo |-> pathParts[2]]
       ELSE InvalidUrl

\* RepositoryInfo (unnamed/part_002:44-55)
extractRepoInfoRepository(url) ==
    LET urlObj == NewURL(url)
        pathParts == SelectSeq(Split(urlObj.pathname), NonEmpty)
    IN IF urlObj.ok /\ Len(pathParts) >= 2
       THEN [ok |-> TRUE, owner |-> pathParts[1], repo |-> pathParts[2]]
       ELSE InvalidUrl

(***************************************************************************)
(* Dates                                                                   *)
(***************************************************************************)

TicksPerDay == 2

\* new Date(): the session is short, the clock reads the same instant
Today == 40
NowTick == Today * TicksPerDay + 1

\* an unset Date (undefined)
NoDate == -1

TzOffsets == {-1, 0, 1}

\* date.toISOString().split('T')[0]: the calendar day in UTC
UtcDate(t) == t \div TicksPerDay

\* the calendar day in the local time zone
LocalDate(t) == (t + tz) \div TicksPerDay

\* date.setDate(date.getDate() + n): same local time of day, n days later
AddDays(t, n) == t + n * TicksPerDay

\* new Date("YYYY-MM-DD"): midnight UTC of that day
ParseDay(day) == day * TicksPerDay

\* local midnight of local day d, as the calendar delivers a picked day
LocalMidnight(d) == d * TicksPerDay - tz

\* toLocaleDateString('en-US', {month: 'short', day: 'numeric'}): the local
\* calendar day (the year is not printed)
MonthDay(t) == LocalDate(t)

\* toLocaleDateString('en-US', {weekday: 'short'}); day 0 is a Thursday
WeekdayNames == <<"Thu", "Fri", "Sat", "Sun", "Mon", "Tue", "Wed">>
Weekday(t) == WeekdayNames[(LocalDate(t) % 7) + 1]

\* CommitAnalytics.tsx:61-66 and DateRangePicker handleReset: last 30 days
DefaultWindowDays == 30
DefaultRange == [from |-> AddDays(NowTick, -DefaultWindowDays), to |-> NowTick]

\* DateRange | undefined; an undefined range reads like one with no day set
NoRange == [from |-> NoDate, to |-> NoDate]


(***************************************************************************)
(* Commit Aggregator: processCommitData                                    *)
(***************************************************************************)

\* Array.from({length: 30}) at CommitAnalytics.tsx:154
FallbackDays == 30
\* .slice(0, 5) at CommitAnalytics.tsx:193
TopContributors == 5
\* .slice(0, 10) at CommitAnalytics.tsx:216
RecentCommits == 10

\* a commit of the response: author date, GitHub login ("" when the commit
\* has no linked account) and the author name of the commit itself
Commit(date, login, name) == [date |-> date, login |-> login, name |-> name]

\* commit.author?.login || commit.commit.author.name
ContributorName(commit) ==
    IF commit.login # "" THEN commit.login ELSE commit.name

\* property names that are array indices, with their numeric value
ArrayIndex == [k \in {"3", "12"} |-> IF k = "3" THEN 3 ELSE 12]
IsArrayIndex(k) == k \in DOMAIN ArrayIndex

\* commitsByDate[date] || 0, with commitsByDate as built at lines 144-148
commitsByDate(commits, date) ==
    Cardinality({i \in 1..Len(commits) : UtcDate(commits[i].date) = date})

\* the while loop of generateDateRange, lines 165-168
RECURSIVE DatesLoop(_, _)
DatesLoop(currentDate, endDate) ==
    IF currentDate <= endDate
    THEN <<UtcDate(currentDate)>> \o DatesLoop(AddDays(currentDate, 1), endDate)
    ELSE <<>>

generateDateRangeMutant(range) ==
    IF range.from = NoDate \/ range.to = NoDate
    THEN [i \in 1..FallbackDays |->
             UtcDate(AddDays(NowTick, -(FallbackDays - i)))]
    ELSE DatesLoop(range.from, AddDays(range.to, -1))

\* CommitAnalytics.tsx:151-171
generateDateRange(range) ==
    IF range.from = NoDate \/ range.to = NoDate
    THEN [i \in 1..FallbackDays |->
             UtcDate(AddDays(NowTick, -(FallbackDays - i)))]
    ELSE DatesLoop(range.from, range.to)

\* CommitAnalytics.tsx:173-177
commitTrend(commits, range) ==
    LET dateRangeDays == generateDateRange(range)
    IN [i \in 1..Len(dateRangeDays) |->
           [date |-> MonthDay(ParseDay(dateRangeDays[i])),
            commits |-> commitsByDate(commits, dateRangeDays[i])]]

\* the names in the order in which the reduce of lines 180-189 creates them
RECURSIVE FirstSeen(_, _)
FirstSeen(commits, seen) ==
    IF commits = <<>> THEN <<>>
    ELSE LET name == ContributorName(Head(commits))
         IN IF name \in seen THEN FirstSeen(Tail(commits), seen)
            ELSE <<name>> \o FirstSeen(Tail(commits), seen \cup {name})

\* the sequence of the elements of a set of array indices, ascending
RECURSIVE Ascending(_)
Ascending(keys) ==
    IF keys = {} THEN <<>>
    ELSE LET k == CHOOSE x \in keys :
                      \A y \in keys : ArrayIndex[x] <= ArrayIndex[y]
         IN <<k>> \o Ascending(keys \ {k})

NotArrayIndex(k) == ~IsArrayIndex(k)

ObjectKeysMutant(inserted) == inserted

\* Object.entries order: array-index keys ascending, then the other keys in
\* the order of their creation
ObjectKeys(inserted) ==
    Ascending({inserted[i] : i \in 1..Len(inserted)} \cap DOMAIN ArrayIndex)
    \o SelectSeq(inserted, NotArrayIndex)

contributorCount(commits, name) ==
    Cardinality({i \in 1..Len(commits) : ContributorName(commits[i]) = name})

\* Array.prototype.sort with (a, b) => b.count - a.count, which is stable:
\* e goes behind every entry that does not have fewer commits
RECURSIVE InsertByCount(_, _)
InsertByCount(sorted, e) ==
    IF sorted = <<>> THEN <<e>>
    ELSE IF Head(sorted).commits >= e.commits
         THEN <<Head(sorted)>> \o InsertByCount(Tail(sorted), e)
         ELSE <<e>> \o sorted

RECURSIVE SortByCount(_, _)
SortByCount(entries, sorted) ==
    IF entries = <<>> THEN sorted
    ELSE SortByCount(Tail(entries), InsertByCount(sorted, Head(entries)))

\* CommitAnalytics.tsx:179-198
topContributors(commits) ==
    LET keys == ObjectKeys(FirstSeen(commits, {}))
        entries == [i \in 1..Len(keys) |->
                       [name |-> keys[i],
                        commits |-> contributorCount(commits, keys[i])]]
        sorted == SortByCount(entries, <<>>)
    IN SubSeq(sorted, 1, Min(TopContributors, Len(sorted)))

dailyActivityMutant(commits) ==
    LET days == <<"Mon", "Tue", "Wed", "Thu", "Fri", "Sat", "Sun">>
    IN [i \in 1..7 |->
           [day |-> days[i],
            commits |-> Cardinality({j \in 1..Len(commits) :
                WeekdayNames[(UtcDate(commits[j].date) % 7) + 1] = days[i]})]]

\* CommitAnalytics.tsx:200-210
dailyActivity(commits) ==
    LET days == <<"Mon", "Tue", "Wed", "Thu", "Fri", "Sat", "Sun">>
    IN [i \in 1..7 |->
           [day |-> days[i],
            commits |-> Cardinality({j \in 1..Len(commits) :
                                        Weekday(commits[j].date) = days[i]})]]

processCommitDataMutant(commits, range) ==
    [totalCommits |-> Len(commits),
     commitTrend |-> commitTrend(commits, range),
     topContributors |-> topContributors(commits),
     recentCommits |-> commits,
     dailyActivity |-> dailyActivity(commits)]

\* CommitAnalytics.tsx:142-219; range is the dateRange of the render whose
\* fetchCommitData called it
processCommitData(commits, range) ==
    [totalCommits |-> Len(commits),
     commitTrend |-> commitTrend(commits, range),
     topContributors |-> topContributors(commits),
     recentCommits |-> SubSeq(commits, 1, Min(RecentCommits, Len(commits))),
     dailyActivity |-> dailyActivity(commits)]

\* useState<AnalyticsData | null>(null)
NoAnalytics == [totalCommits |-> -1]

\* fetchCommitData, lines 89-99: the since and until parameters of the request
since(range) == range.from

untilMutant(range) ==
    IF range.to = NoDate THEN NoDate ELSE range.to

until(range) ==
    IF range.to = NoDate THEN NoDate ELSE AddDays(range.to, 1)


(***************************************************************************)
(* The Commit Aggregator applied to the responses of one request           *)
(***************************************************************************)

MaxCommits == 3

LocalToday == LocalDate(NowTick)

\* the ranges the date picker can hold: the default, picked days (local
\* midnights), a default end replaced by a picked day, a first click that
\* sets only the start, and no range
DateRanges ==
    {DefaultRange,
     [from |-> LocalMidnight(LocalToday - 2), to |-> LocalMidnight(LocalToday - 1)],
     [from |-> LocalMidnight(LocalToday - 1), to |-> LocalMidnight(LocalToday - 1)],
     [from |-> LocalMidnight(LocalToday - 1), to |-> LocalMidnight(LocalToday)],
     [from |-> DefaultRange.from, to |-> LocalMidnight(LocalToday - 1)],
     [from |-> LocalMidnight(LocalToday - 1), to |-> NoDate],
     [from |-> LocalMidnight(LocalToday - 35), to |-> NoDate],
     NoRange}

\* author dates of commits: every tick of the last three days up to now, and
\* one five weeks back
CommitDates ==
    ((Today - 2) * TicksPerDay .. NowTick) \cup {AddDays(NowTick, -35)}

DatedCommits == {Commit(t, "alice", "Alice") : t \in CommitDates}

\* commits that differ in their author only; "alice" occurs with and without
\* a linked account, "3" and "12" are logins that are array indices
AuthoredCommits ==
    {Commit(NowTick, l, "Alice") : l \in {"alice", "bob", "3", "12"}}
    \cup {Commit(NowTick, "", "alice")}

FourAuthors ==
    <<Commit(NowTick, "carol", "C"), Commit(NowTick, "dave", "D"),
      Commit(NowTick, "", "erin"), Commit(NowTick, "frank", "F")>>

AggregatorInputs ==
    {[commits |-> c, range |-> r] :
        c \in SeqUpTo(DatedCommits, MaxCommits), r \in DateRanges}
    \cup {[commits |-> p \o c, range |-> DefaultRange] :
        c \in SeqUpTo(AuthoredCommits, MaxCommits), p \in {<<>>, FourAuthors}}
    \cup {[commits |-> c \o FourAuthors, range |-> DefaultRange] :
        c \in SeqUpTo(AuthoredCommits, MaxCommits)}

InitAggregator ==
    /\ InitIndex /\ InitDashboard
    /\ storage = <<>>
    /\ tz \in TzOffsets
    /\ arg \in AggregatorInputs
    /\ res = NoRes
    /\ last = Did("init", 0)

\* fetchCommitData, lines 129-133: the response body goes through
\* processCommitData
applyProcessCommitData ==
    /\ ~res.done
    /\ res' = [done |-> TRUE,
               analytics |-> processCommitData(arg.commits, arg.range)]
    /\ last' = Did("processCommitData", 0)
    /\ UNCHANGED <<idxVars, upVars, dashVars, tz, arg>>

NextAggregator == applyProcessCommitData

SpecAggregator == InitAggregator /\ [][NextAggregator]_vars

(***************************************************************************)
(* Claims on the Commit Aggregator                                         *)
(***************************************************************************)

RECURSIVE SumCommits(_)
SumCommits(points) ==
    IF points = <<>> THEN 0 ELSE Head(points).commits + SumCommits(Tail(points))

WindowSet(r) == r.from # NoDate /\ r.to # NoDate

\* the whole days from r.from to r.to
WholeDays(r) == (r.to - r.from) \div TicksPerDay

CommitsOn(commits, day) ==
    Cardinality({i \in 1..Len(commits) : commits[i].date \div TicksPerDay = day})

\* the UTC calendar days from the day of r.from to the day of r.to
DaysOf(r) == UtcDate(r.from)..UtcDate(r.to)

\* C8 as stated: with from and to set the trend has exactly one point per
\* day of [from, to] inclusive, in chronological order, counting the commits
\* whose UTC date is that day (0 when there is none), and its length is
\* (to - from in whole days) + 1; with from or to unset it has exactly 30
\* points.
C8_AsStated ==
    res.done =>
        LET trend == res.analytics.commitTrend
            r == arg.range
        IN IF WindowSet(r)
           THEN /\ Len(trend) = Cardinality(DaysOf(r))
                /\ \A i \in 1..Len(trend) :
                      trend[i].commits = CommitsOn(arg.commits, UtcDate(r.from) + i - 1)
                /\ \A i \in 1..(Len(trend) - 1) : trend[i].date < trend[i + 1].date
                /\ Len(trend) = WholeDays(r) + 1
           ELSE Len(trend) = 30

\* C8, what the code guarantees: with from and to set the trend has one point
\* for each of the instants from, from + 1 day, ... that are not after to, in
\* this order, counting the commits whose UTC date is the UTC date of that
\* instant, so its length is (to - from in whole days) + 1; with from or to
\* unset it has exactly 30 points.
C8_TrendPerDay ==
    res.done =>
        LET trend == res.analytics.commitTrend
            r == arg.range
        IN IF WindowSet(r)
           THEN /\ Len(trend) = WholeDays(r) + 1
                /\ \A i \in 1..Len(trend) :
                      LET day == (r.from + (i - 1) * TicksPerDay) \div TicksPerDay
                      IN trend[i].commits = CommitsOn(arg.commits, day)
                /\ \A i \in 1..(Len(trend) - 1) : trend[i].date < trend[i + 1].date
           ELSE Len(trend) = 30

\* a window whose start is later in its day than its end is in its own, with
\* a commit on the day of the end
C8_Witness ==
    /\ res.done /\ WindowSet(arg.range)
    /\ Cardinality(DaysOf(arg.range)) > WholeDays(arg.range) + 1
    /\ \E i \in 1..Len(arg.commits) :
          UtcDate(arg.commits[i].date) = UtcDate(arg.range.to)

\* the commits the request of fetchCommitData asks for: authored in
\* [from, to + 1 day)
WithinRequest(commit, r) ==
    /\ r.from # NoDate => commit.date >= r.from
    /\ r.to # NoDate => commit.date < r.to + TicksPerDay

\* C9: for every commit sequence the request for the active window can
\* return, the counts of the trend points add up to the number of commits.
C9_TrendSum ==
    res.done /\ (\A i \in 1..Len(arg.commits) : WithinRequest(arg.commits[i], arg.range))
        => SumCommits(res.analytics.commitTrend) = Len(arg.commits)

FirstIndex(commits, name) ==
    CHOOSE i \in 1..Len(commits) :
        /\ ContributorName(commits[i]) = name
        /\ \A j \in 1..(i - 1) : ContributorName(commits[j]) # name

Contributors(commits) == {ContributorName(commits[i]) : i \in 1..Len(commits)}

\* at most 5 distinct contributors of the input, each with its number of
\* commits, in descending order of that number
RankedTop(top, commits) ==
    /\ Len(top) = Min(5, Cardinality(Contributors(commits)))
    /\ \A i \in 1..Len(top) :
          /\ top[i].name \in Contributors(commits)
          /\ top[i].commits = contributorCount(commits, top[i].name)
    /\ \A i, j \in 1..Len(top) : i < j =>
          top[i].name # top[j].name /\ top[i].commits >= top[j].commits

\* C10 as stated: at most 5 contributors keyed by login, else name, by commit
\* count descending, contributors with equal counts in the order of their
\* first occurrence in the input, each with its number of commits.
C10_AsStated ==
    res.done =>
        LET top == res.analytics.topContributors
        IN /\ RankedTop(top, arg.commits)
           /\ \A i, j \in 1..Len(top) :
                 i < j /\ top[i].commits = top[j].commits =>
                     FirstIndex(arg.commits, top[i].name)
                         < FirstIndex(arg.commits, top[j].name)

\* the order of two property names in Object.entries
KeyBefore(commits, a, b) ==
    IF IsArrayIndex(a) /\ IsArrayIndex(b) THEN ArrayIndex[a] < ArrayIndex[b]
    ELSE IF IsArrayIndex(a) # IsArrayIndex(b) THEN IsArrayIndex(a)
    ELSE FirstIndex(commits, a) < FirstIndex(commits, b)

\* C10, what the code guarantees: among contributors with equal counts
\* those whose key is an array index (a canonical non-negative integer such
\* as "12") come first, in ascending numeric order, and only the others
\* follow in the order of their first occurrence; the 5 listed are the first
\* 5 of that order.
C10_Ranking ==
    res.done =>
        LET top == res.analytics.topContributors
        IN /\ RankedTop(top, arg.commits)
           /\ \A i, j \in 1..Len(top) :
                 i < j /\ top[i].commits = top[j].commits =>
                     KeyBefore(arg.commits, top[i].name, top[j].name)
           /\ \A c \in Contributors(arg.commits) :
                 c \notin {top[i].name : i \in 1..Len(top)} =>
                     \A i \in 1..Len(top) :
                         \/ top[i].commits > contributorCount(arg.commits, c)
                         \/ /\ top[i].commits = contributorCount(arg.commits, c)
                            /\ KeyBefore(arg.commits, top[i].name, c)

\* more than 5 contributors, a tie among the listed ones and an array-index
\* login seen after another contributor
C10_Witness ==
    /\ res.done
    /\ Cardinality(Contributors(arg.commits)) > 5
    /\ Len(res.analytics.topContributors) = 5
    /\ res.analytics.topContributors[1].commits = 2
    /\ res.analytics.topContributors[2].commits = 1
    /\ res.analytics.topContributors[3].commits = 1
    /\ res.analytics.topContributors[2].name = "12"


\* the weekday of the local calendar day of instant t; 1 January 1970 was a
\* Thursday
LocalWeekday(t) ==
    LET d == ((t + tz) \div TicksPerDay) % 7
    IN CASE d = 0 -> "Thu" [] d = 1 -> "Fri" [] d = 2 -> "Sat" [] d = 3 -> "Sun"
         [] d = 4 -> "Mon" [] d = 5 -> "Tue" [] d = 6 -> "Wed"

\* C11: dailyActivity has exactly 7 entries, Mon, Tue, Wed, Thu, Fri, Sat, Sun
\* in this order; each commit is counted in exactly one of them, the one of
\* the local weekday of its author date, and a weekday without commit has 0.
C11_WeekdayHistogram ==
    res.done =>
        LET h == res.analytics.dailyActivity
        IN /\ Len(h) = 7
           /\ [i \in 1..7 |-> h[i].day]
                 = <<"Mon", "Tue", "Wed", "Thu", "Fri", "Sat", "Sun">>
           /\ \A i \in 1..7 :
                 h[i].commits =
                     Cardinality({j \in 1..Len(arg.commits) :
                         LocalWeekday(arg.commits[j].date) = h[i].day})
           /\ SumCommits(h) = Len(arg.commits)

\* commits on two weekdays, one of them on a local day that is not its UTC
\* day, and weekdays without commit
C11_Witness ==
    /\ res.done
    /\ \E j \in 1..Len(arg.commits) :
          LocalDate(arg.commits[j].date) # UtcDate(arg.commits[j].date)
    /\ Cardinality({i \in 1..7 : res.analytics.dailyActivity[i].commits > 0}) = 2
    /\ \E i \in 1..7 : res.analytics.dailyActivity[i].commits = 0


(***************************************************************************)
(* Event Aggregator: processGitEvents (unnamed/part_000)                   *)
(***************************************************************************)

\* .slice(0, 10) at part_000:189
TopMembers == 10
\* Array.from({length: 30}) at part_000:192
ActivityDays == 30

Event(type, actor, created) == [type |-> type, actor |-> actor, created_at |-> created]

eventBucketMutant(type) ==
    CASE type = "PushEvent" -> "pushes"
      [] type = "PullRequestEvent" -> "pulls"
      [] type = "MergeEvent" -> "merges"
      [] OTHER -> "none"

\* the switch of part_000:158-175: the bucket an event type counts in
eventBucket(type) ==
    CASE type = "PushEvent" -> "pushes"
      [] type = "PullRequestEvent" -> "pulls"
      [] type \in {"PullRequestReviewEvent", "MergeEvent"} -> "merges"
      [] OTHER -> "none"

countEvents(events, bucket) ==
    Cardinality({i \in 1..Len(events) : eventBucket(events[i].type) = bucket})

memberEvents(events, member, bucket) ==
    Cardinality({i \in 1..Len(events) :
        events[i].actor = member /\ eventBucket(events[i].type) = bucket})

dayEvents(events, day, bucket) ==
    Cardinality({i \in 1..Len(events) :
        UtcDate(events[i].created_at) = day /\ eventBucket(events[i].type) = bucket})

RECURSIVE FirstSeenActors(_, _)
FirstSeenActors(events, seen) ==
    IF events = <<>> THEN <<>>
    ELSE LET member == Head(events).actor
         IN IF member \in seen THEN FirstSeenActors(Tail(events), seen)
            ELSE <<member>> \o FirstSeenActors(Tail(events), seen \cup {member})

RECURSIVE InsertByTotal(_, _)
InsertByTotal(sorted, e) ==
    IF sorted = <<>> THEN <<e>>
    ELSE IF Head(sorted).total >= e.total
         THEN <<Head(sorted)>> \o InsertByTotal(Tail(sorted), e)
         ELSE <<e>> \o sorted

RECURSIVE SortByTotal(_, _)
SortByTotal(entries, sorted) ==
    IF entries = <<>> THEN sorted
    ELSE SortByTotal(Tail(entries), InsertByTotal(sorted, Head(entries)))

memberActivityArrayMutant(events) ==
    LET keys == ObjectKeys(FirstSeenActors(events, {}))
        entries == [i \in 1..Len(keys) |->
            [member |-> keys[i],
             pushes |-> memberEvents(events, keys[i], "pushes"),
             pulls |-> memberEvents(events, keys[i], "pulls"),
             merges |-> memberEvents(events, keys[i], "merges"),
             total |-> memberEvents(events, keys[i], "pushes")
                       + memberEvents(events, keys[i], "pulls")
                       + memberEvents(events, keys[i], "merges")]]
    IN SubSeq(entries, 1, Min(TopMembers, Len(entries)))

\* part_000:178-189
memberActivityArray(events) ==
    LET keys == ObjectKeys(FirstSeenActors(events, {}))
        entries == [i \in 1..Len(keys) |->
            [member |-> keys[i],
             pushes |-> memberEvents(events, keys[i], "pushes"),
             pulls |-> memberEvents(events, keys[i], "pulls"),
             merges |-> memberEvents(events, keys[i], "merges"),
             total |-> memberEvents(events, keys[i], "pushes")
                       + memberEvents(events, keys[i], "pulls")
                       + memberEvents(events, keys[i], "merges")]]
        sorted == SortByTotal(entries, <<>>)
    IN SubSeq(sorted, 1, Min(TopMembers, Len(sorted)))

dailyActivityArrayMutant(events) ==
    [i \in 1..ActivityDays |->
        LET date == UtcDate(AddDays(NowTick, -(ActivityDays + 1 - i)))
        IN [date |-> MonthDay(ParseDay(date)),
            pushes |-> dayEvents(events, date, "pushes"),
            pulls |-> dayEvents(events, date, "pulls"),
            merges |-> dayEvents(events, date, "merges")]]

\* part_000:191-203
dailyActivityArray(events) ==
    [i \in 1..ActivityDays |->
        LET date == UtcDate(AddDays(NowTick, -(ActivityDays - i)))
        IN [date |-> MonthDay(ParseDay(date)),
            pushes |-> dayEvents(events, date, "pushes"),
            pulls |-> dayEvents(events, date, "pulls"),
            merges |-> dayEvents(events, date, "merges")]]

Positive(item) == item.value > 0

eventDistributionMutant(events) ==
    <<[name |-> "Pushes", value |-> countEvents(events, "pushes")],
      [name |-> "Pull Requests", value |-> countEvents(events, "pulls")],
      [name |-> "Merges/Reviews", value |-> countEvents(events, "merges")]>>

\* part_000:205-209
eventDistribution(events) ==
    SelectSeq(<<[name |-> "Pushes", value |-> countEvents(events, "pushes")],
                [name |-> "Pull Requests", value |-> countEvents(events, "pulls")],
                [name |-> "Merges/Reviews", value |-> countEvents(events, "merges")]>>,
              Positive)

\* part_000:116-220
processGitEvents(events) ==
    [pushEvents |-> countEvents(events, "pushes"),
     pullRequestEvents |-> countEvents(events, "pulls"),
     mergeEvents |-> countEvents(events, "merges"),
     totalEvents |-> Len(events),
     memberActivity |-> memberActivityArray(events),
     dailyActivity |-> dailyActivityArray(events),
     eventDistribution |-> eventDistribution(events)]


(***************************************************************************)
(* Quality Scorer: CommitQualityAnalysis                                   *)
(***************************************************************************)

\* .slice(0, 500) at CommitQualityAnalysis.tsx:92
PreviewLength == 500

UpperCase == <<"A", "B", "C", "D", "E", "F", "G", "H", "I", "J", "K", "L", "M", "N", "O", "P", "Q", "R", "S", "T", "U", "V", "W", "X", "Y", "Z">>
LowerCase == <<"a", "b", "c", "d", "e", "f", "g", "h", "i", "j", "k", "l", "m", "n", "o", "p", "q", "r", "s", "t", "u", "v", "w", "x", "y", "z">>

\* the lower-case letter of every upper-case letter
LowerOf ==
    [c \in {UpperCase[k] : k \in 1..26} |->
        LowerCase[CHOOSE k \in 1..26 : UpperCase[k] = c]]

\* String.prototype.toLowerCase
toLowerCase(str) ==
    [i \in 1..Len(str) |->
        IF str[i] \in DOMAIN LowerOf THEN LowerOf[str[i]] ELSE str[i]]

\* String.prototype.includes
includes(str, searchString) ==
    \E i \in 0..(Len(str) - Len(searchString)) :
        \A j \in 1..Len(searchString) : str[i + j] = searchString[j]

\* message.split('\n')
RECURSIVE SplitLines(_)
SplitLines(str) ==
    LET i == IndexOf(str, {"\n"}, 1)
    IN IF i > Len(str) THEN <<str>>
       ELSE <<SubSeq(str, 1, i - 1)>> \o SplitLines(SubSeq(str, i + 1, Len(str)))

\* .filter(line => line.trim())
NonBlank(line) == Trim(line) # <<>>

\* the keywords of lines 134-144
Keyword ==
    [fix |-> <<"f", "i", "x">>,
     bug |-> <<"b", "u", "g">>,
     patch |-> <<"p", "a", "t", "c", "h">>,
     feat |-> <<"f", "e", "a", "t">>,
     add |-> <<"a", "d", "d">>,
     new |-> <<"n", "e", "w">>,
     refactor |-> <<"r", "e", "f", "a", "c", "t", "o", "r">>,
     cleanup |-> <<"c", "l", "e", "a", "n", "u", "p">>,
     reorganize |-> <<"r", "e", "o", "r", "g", "a", "n", "i", "z", "e">>,
     doc |-> <<"d", "o", "c">>,
     readme |-> <<"r", "e", "a", "d", "m", "e">>,
     comment |-> <<"c", "o", "m", "m", "e", "n", "t">>,
     test |-> <<"t", "e", "s", "t">>,
     spec |-> <<"s", "p", "e", "c">>,
     style |-> <<"s", "t", "y", "l", "e">>,
     format |-> <<"f", "o", "r", "m", "a", "t">>,
     lint |-> <<"l", "i", "n", "t">>]

commitPatternMutant(message) ==
    LET lowerMessage == toLowerCase(message)
    IN IF includes(lowerMessage, Keyword.test) \/ includes(lowerMessage, Keyword.spec)
          THEN "test"
       ELSE IF includes(lowerMessage, Keyword.fix) \/ includes(lowerMessage, Keyword.bug)
          \/ includes(lowerMessage, Keyword.patch) THEN "fix"
       ELSE IF includes(lowerMessage, Keyword.feat) \/ includes(lowerMessage, Keyword.add)
          \/ includes(lowerMessage, Keyword.new) THEN "feat"
       ELSE IF includes(lowerMessage, Keyword.refactor) \/ includes(lowerMessage, Keyword.cleanup)
          \/ includes(lowerMessage, Keyword.reorganize) THEN "refactor"
       ELSE IF includes(lowerMessage, Keyword.doc) \/ includes(lowerMessage, Keyword.readme)
          \/ includes(lowerMessage, Keyword.comment) THEN "docs"
       ELSE IF includes(lowerMessage, Keyword.style) \/ includes(lowerMessage, Keyword.format)
          \/ includes(lowerMessage, Keyword.lint) THEN "style"
       ELSE "other"

\* CommitQualityAnalysis.tsx:132-148: the pattern a (trimmed) message counts in
commitPattern(message) ==
    LET lowerMessage == toLowerCase(message)
    IN IF includes(lowerMessage, Keyword.fix) \/ includes(lowerMessage, Keyword.bug)
          \/ includes(lowerMessage, Keyword.patch) THEN "fix"
       ELSE IF includes(lowerMessage, Keyword.feat) \/ includes(lowerMessage, Keyword.add)
          \/ includes(lowerMessage, Keyword.new) THEN "feat"
       ELSE IF includes(lowerMessage, Keyword.refactor) \/ includes(lowerMessage, Keyword.cleanup)
          \/ includes(lowerMessage, Keyword.reorganize) THEN "refactor"
       ELSE IF includes(lowerMessage, Keyword.doc) \/ includes(lowerMessage, Keyword.readme)
          \/ includes(lowerMessage, Keyword.comment) THEN "docs"
       ELSE IF includes(lowerMessage, Keyword.test) \/ includes(lowerMessage, Keyword.spec)
          THEN "test"
       ELSE IF includes(lowerMessage, Keyword.style) \/ includes(lowerMessage, Keyword.format)
          \/ includes(lowerMessage, Keyword.lint) THEN "style"
       ELSE "other"

PatternsMutant == {"fix", "feat", "refactor", "docs", "test", "style"}

\* the keys of commitPatterns, lines 105-113
Patterns == {"fix", "feat", "refactor", "docs", "test", "style", "other"}

\* Math.round(n / d) for n >= 0 and d > 0: the nearest integer, a half
\* rounded up.  The quotients of the scorer that end in .5 have a divisor that
\* is a power of two for up to 10 commits, so the floating-point value is the
\* exact one.
Round(n, d) == (2 * n + d) \div (2 * d)

RECURSIVE SumLengths(_)
SumLengths(messages) ==
    IF messages = <<>> THEN 0 ELSE Len(Head(messages)) + SumLengths(Tail(messages))

\* useState<QualityMetrics | null>(null)
NoQualityMetrics == [totalCommits |-> -1]

analyzeCommitsMutant(commits, hasReadme, readmeContent) ==
    LET message == [i \in 1..Len(commits) |-> Trim(commits[i].message)]
        pattern == [i \in 1..Len(commits) |-> commitPattern(message[i])]
        totalCommits == Len(commits)
    IN [totalCommits |-> totalCommits,
        commitsWithDescription |->
            Cardinality({i \in 1..totalCommits :
                Len(SelectSeq(SplitLines(message[i]), NonBlank)) > 1}),
        emptyMessages |->
            Cardinality({i \in 1..totalCommits : message[i] = <<>>}),
        shortMessages |->
            Cardinality({i \in 1..totalCommits : Len(message[i]) < 10}),
        averageMessageLength |->
            IF totalCommits > 0 THEN Round(SumLengths(message), totalCommits) ELSE 0,
        hasReadme |-> hasReadme,
        readmeContent |-> readmeContent,
        commitPatterns |->
            [b \in Patterns |->
                Cardinality({i \in 1..totalCommits : pattern[i] = b})]]

\* CommitQualityAnalysis.tsx:98-162: the metrics of the commits, given what
\* the README request has brought
analyzeCommits(commits, hasReadme, readmeContent) ==
    LET message == [i \in 1..Len(commits) |-> Trim(commits[i].message)]
        pattern == [i \in 1..Len(commits) |-> commitPattern(message[i])]
        totalCommits == Len(commits)
    IN [totalCommits |-> totalCommits,
        commitsWithDescription |->
            Cardinality({i \in 1..totalCommits :
                Len(SelectSeq(SplitLines(message[i]), NonBlank)) > 1}),
        emptyMessages |->
            Cardinality({i \in 1..totalCommits : message[i] = <<>>}),
        shortMessages |->
            Cardinality({i \in 1..totalCommits :
                message[i] # <<>> /\ Len(message[i]) < 10}),
        averageMessageLength |->
            IF totalCommits > 0 THEN Round(SumLengths(message), totalCommits) ELSE 0,
        hasReadme |-> hasReadme,
        readmeContent |-> readmeContent,
        commitPatterns |->
            [b \in Patterns |->
                Cardinality({i \in 1..totalCommits : pattern[i] = b})]]

qualityScoreMutant(metrics) ==
    LET total == Max(metrics.totalCommits, 1)
    IN Round(metrics.commitsWithDescription * 40
             + (metrics.totalCommits - metrics.emptyMessages) * 30
             + (IF metrics.hasReadme THEN 20 ELSE 0) * total
             + (IF metrics.averageMessageLength > 20 THEN 20 ELSE 0) * total,
             total)

\* CommitQualityAnalysis.tsx:195-200
qualityScore(metrics) ==
    LET total == Max(metrics.totalCommits, 1)
    IN Round(metrics.commitsWithDescription * 40
             + (metrics.totalCommits - metrics.emptyMessages
                - metrics.shortMessages) * 30
             + (IF metrics.hasReadme THEN 20 ELSE 0) * total
             + (IF metrics.averageMessageLength > 20 THEN 10 ELSE 0) * total,
             total)

\* readmeData.content: base64 text, here in groups of four characters, each
\* with the three characters it encodes
Base64 ==
    [g \in {"IyBS", "YWJj"} |->
        IF g = "IyBS" THEN <<"#", " ", "R">> ELSE <<"a", "b", "c">>]

\* atob: the decoded text; a group that is not base64 makes it throw
atob(content) ==
    [i \in 1..(3 * Len(content)) |->
        Base64[content[((i - 1) \div 3) + 1]][((i - 1) % 3) + 1]]

IsBase64(g) == g \in DOMAIN Base64

readReadmeMutant(response) ==
    IF ~(response.status \in 200..299)
    THEN [hasReadme |-> TRUE, readmeContent |-> <<>>]
    ELSE IF SelectSeq(response.body, IsBase64) = response.body
         THEN [hasReadme |-> TRUE,
               readmeContent |->
                   SubSeq(atob(response.body), 1,
                          Min(PreviewLength, Len(atob(response.body))))]
         ELSE [hasReadme |-> TRUE, readmeContent |-> <<>>]

\* CommitQualityAnalysis.tsx:84-96: what the README request brings; status 0
\* is the fetch that rejects or the body that cannot be read
readReadme(response) ==
    IF ~(response.status \in 200..299)
    THEN [hasReadme |-> FALSE, readmeContent |-> <<>>]
    ELSE IF SelectSeq(response.body, IsBase64) = response.body
         THEN [hasReadme |-> TRUE,
               readmeContent |->
                   SubSeq(atob(response.body), 1,
                          Min(PreviewLength, Len(atob(response.body))))]
         ELSE [hasReadme |-> TRUE, readmeContent |-> <<>>]

\* CommitQualityAnalysis.tsx:68-96, 163-174: the effect up to the await of
\* the README request; q is the component before the effect runs
analyzeCommitQuality(q, githubUrl, commits) ==
    IF commits # <<>> /\ extractRepoInfoQuality(githubUrl).ok
    THEN [q EXCEPT !.loading = TRUE,
                   !.pending = @ (+) SetToBag({commits})]
    ELSE [q EXCEPT !.loading = FALSE]

\* CommitQualityAnalysis as mounted (lines 52-53) with the first run of its
\* effect
mountQuality(githubUrl, commits) ==
    analyzeCommitQuality([mounted |-> TRUE, loading |-> TRUE,
                          metrics |-> NoQualityMetrics, pending |-> EmptyBag],
                         githubUrl, commits)

(***************************************************************************)
(* The dashboard: CommitAnalytics, its children and GitHubTokenManager     *)
(***************************************************************************)

MaxInflight == 2

\* a response: the HTTP status (0 when fetch itself rejects), the
\* X-RateLimit-Remaining header and the parsed body
Response(status, remaining, body) ==
    [status |-> status, remaining |-> remaining, body |-> body]

\* response.ok
Ok(response) == response.status \in 200..299

\* commit.commit.message
WithMessage(commit, message) ==
    [date |-> commit.date, login |-> commit.login, name |-> commit.name,
     message |-> message]

FetchedCommits == {<<WithMessage(Commit(NowTick, "alice", "Alice"), Keyword.fix)>>}

CommitResponses ==
    {Response(200, None, c) : c \in FetchedCommits}
    \cup {Response(st, None, <<>>) : st \in {0, 404, 401, 500}}
    \cup {Response(403, r, <<>>) : r \in {"0", "59", None}}

InvalidUrlError == <<"Invalid GitHub URL">>
NotFoundOrPrivateError ==
    <<"Repository not found or is private. Please check the URL or add a GitHub token for private repositories.">>
InvalidCredentialError ==
    <<"Invalid GitHub token. Please check your token and try again.">>
RateLimitedError ==
    <<"GitHub API rate limit exceeded. Please try again later or add a GitHub token for higher rate limits.">>
ForbiddenError ==
    <<"Access forbidden. Please check your GitHub token permissions.">>
GenericApiError(status) == <<"GitHub API error: ", status>>
\* the message of the TypeError with which fetch rejects
TransportError == <<"Failed to fetch">>

commitErrorMutant(response) ==
    IF response.status = 0 THEN TransportError
    ELSE IF response.status = 404 THEN NotFoundOrPrivateError
    ELSE IF response.status = 401 THEN InvalidCredentialError
    ELSE IF response.status = 403
         THEN IF response.remaining = None THEN ForbiddenError
              ELSE RateLimitedError
    ELSE GenericApiError(response.status)

\* CommitAnalytics.tsx:113-127 and the catch of 134-136: the message of a
\* response that is not ok
commitError(response) ==
    IF response.status = 0 THEN TransportError
    ELSE IF response.status = 404 THEN NotFoundOrPrivateError
    ELSE IF response.status = 401 THEN InvalidCredentialError
    ELSE IF response.status = 403
         THEN IF response.remaining = "0" THEN RateLimitedError
              ELSE ForbiddenError
    ELSE GenericApiError(response.status)

\* CommitAnalytics.tsx:225-262: what the component renders
View(mounted, ld, err, an) ==
    IF ~mounted THEN "none"
    ELSE IF ld THEN "skeleton"
    ELSE IF err # <<>> THEN "error"
    ELSE IF an = NoAnalytics THEN "null"
    ELSE "analytics"

\* Index.tsx:106-107: CommitAnalytics exists once a team is selected
Mounted == selectedTeam # 0
CurrentView == View(Mounted, loading, caError, analytics)

\* the request of fetchCommitData (lines 86-111) and, in range, the
\* dateRange its processCommitData will read
CommitRequest(info, range, tok) ==
    [owner |-> info.owner, repo |-> info.repo,
     since |-> since(range), until |-> until(range),
     authorization |-> tok, range |-> range]

fetchSent(team) == IF extractRepoInfo(team.GitHubURL.v).ok THEN 1 ELSE 0

\* CommitAnalytics.tsx:81-111, up to the await: a URL that does not parse
\* falls through catch and finally at once
fetchCommitData(team, range, tok) ==
    LET info == extractRepoInfo(team.GitHubURL.v)
    IN IF info.ok
       THEN /\ loading' = TRUE
            /\ caError' = <<>>
            /\ inflight' = inflight (+) SetToBag({CommitRequest(info, range, tok)})
       ELSE /\ loading' = FALSE
            /\ caError' = InvalidUrlError
            /\ inflight' = inflight

\* useState<ActivityMetrics | null>(null), useState<RepositoryData | null>(null)
NoMetrics == [totalEvents |-> -1]
NoRepoData == [full_name |-> <<>>]

\* GitActivityAnalysis as mounted (part_000:60-62, 77-114): state and the
\* first run of its effect
mountActivity(githubUrl) ==
    IF extractRepoInfoActivity(githubUrl).ok
    THEN [mounted |-> TRUE, loading |-> TRUE, error |-> <<>>,
          metrics |-> NoMetrics, pending |-> 1]
    ELSE [mounted |-> TRUE, loading |-> FALSE, error |-> InvalidUrlError,
          metrics |-> NoMetrics, pending |-> 0]

\* RepositoryInfo as mounted (part_002:40-42, 57-90)
mountRepositoryInfo(githubUrl) ==
    IF extractRepoInfoRepository(githubUrl).ok
    THEN [mounted |-> TRUE, loading |-> TRUE, error |-> <<>>,
          repoData |-> NoRepoData, pending |-> 1]
    ELSE [mounted |-> TRUE, loading |-> FALSE, error |-> InvalidUrlError,
          repoData |-> NoRepoData, pending |-> 0]

\* CommitAnalytics.tsx:225-260, 304, 467-477: the children exist only in the
\* analytics view.  A render that leaves it unmounts them (what their
\* suspended calls set afterwards is lost); a render that enters it mounts
\* fresh ones.  While the view stays, githubUrl and githubToken do not
\* change; the view stays only when a response has replaced analytics, and
\* the new recentCommits array runs the effect of CommitQualityAnalysis
\* again (line 175).
renderChildren(before, after, githubUrl) ==
    IF after # "analytics"
    THEN activity' = NotMounted /\ repoInfo' = NotMounted /\ quality' = NotMounted
    ELSE IF before = "analytics"
         THEN /\ UNCHANGED <<activity, repoInfo>>
              /\ quality' = analyzeCommitQuality(quality, githubUrl,
                                                 analytics'.recentCommits)
         ELSE /\ activity' = mountActivity(githubUrl)
              /\ repoInfo' = mountRepositoryInfo(githubUrl)
              /\ quality' = mountQuality(githubUrl, analytics'.recentCommits)

\* Index.tsx:31-34 with the mount or the effect of CommitAnalytics.tsx:221-223
handleTeamSelect(i) ==
    /\ teams # <<>> /\ i \in 1..Len(teams) /\ i # selectedTeam
    /\ BagCardinality(inflight) < MaxInflight
    /\ selectedTeam' = i
    /\ error' = None
    /\ dateRange' = IF Mounted THEN dateRange ELSE DefaultRange
    /\ fetchCommitData(teams[i], dateRange', githubToken)
    /\ analytics' = analytics
    /\ renderChildren(CurrentView, View(TRUE, loading', caError', analytics'),
                      teams[i].GitHubURL.v)
    /\ last' = Did("handleTeamSelect", fetchSent(teams[i]))
    /\ UNCHANGED <<teams, githubToken, upVars, tokVars, tz, fnVars>>

\* DateRangePicker onSelect / handleReset -> setDateRange, then the effect
\* of CommitAnalytics.tsx:221-223; the picker is part of the analytics view
setDateRange(range) ==
    /\ CurrentView = "analytics"
    /\ ~(range = NoRange /\ dateRange = NoRange)
    /\ BagCardinality(inflight) < MaxInflight
    /\ dateRange' = range
    /\ fetchCommitData(teams[selectedTeam], range, githubToken)
    /\ analytics' = analytics
    /\ renderChildren(CurrentView, View(TRUE, loading', caError', analytics'),
                      teams[selectedTeam].GitHubURL.v)
    /\ last' = Did("setDateRange", fetchSent(teams[selectedTeam]))
    /\ UNCHANGED <<idxVars, upVars, tokVars, tz, fnVars>>

retryMutant(view, op) ==
    /\ CurrentView = view
    /\ BagCardinality(inflight) < MaxInflight
    /\ fetchCommitData(teams[selectedTeam], NoRange, githubToken)
    /\ analytics' = analytics
    /\ renderChildren(CurrentView, View(TRUE, loading', caError', analytics'),
                      teams[selectedTeam].GitHubURL.v)
    /\ last' = Did(op, fetchSent(teams[selectedTeam]))
    /\ UNCHANGED <<idxVars, upVars, dateRange, tokVars, tz, fnVars>>

\* the buttons Try Again (line 251) and Refresh (line 281)
retry(view, op) ==
    /\ CurrentView = view
    /\ BagCardinality(inflight) < MaxInflight
    /\ fetchCommitData(teams[selectedTeam], dateRange, githubToken)
    /\ analytics' = analytics
    /\ renderChildren(CurrentView, View(TRUE, loading', caError', analytics'),
                      teams[selectedTeam].GitHubURL.v)
    /\ last' = Did(op, fetchSent(teams[selectedTeam]))
    /\ UNCHANGED <<idxVars, upVars, dateRange, tokVars, tz, fnVars>>

tryAgain == retry("error", "tryAgain")
refresh == retry("analytics", "refresh")

fetchCommitDataDoneStuck(request, response) ==
    /\ BagIn(request, inflight)
    /\ inflight' = inflight (-) SetToBag({request})
    /\ IF Ok(response)
       THEN /\ analytics' = processCommitData(response.body, request.range)
            /\ caError' = caError
            /\ loading' = FALSE
       ELSE /\ analytics' = analytics
            /\ caError' = commitError(response)
            /\ loading' = loading
    /\ renderChildren(CurrentView, View(TRUE, loading', caError', analytics'),
                      teams[selectedTeam].GitHubURL.v)
    /\ last' = Did(IF Ok(response) THEN "commitsLoaded" ELSE "commitsFailed", 0)
    /\ UNCHANGED <<idxVars, upVars, dateRange, tokVars, tz, fnVars>>

fetchCommitDataDoneMutant(request, response) ==
    /\ BagIn(request, inflight)
    /\ inflight' = inflight (-) SetToBag({request})
    /\ IF Ok(response)
       THEN /\ analytics' = processCommitData(response.body, request.range)
            /\ caError' = caError
       ELSE /\ analytics' = analytics
            /\ caError' = caError
    /\ loading' = FALSE
    /\ renderChildren(CurrentView, View(TRUE, loading', caError', analytics'),
                      teams[selectedTeam].GitHubURL.v)
    /\ last' = Did(IF Ok(response) THEN "commitsLoaded" ELSE "commitsFailed", 0)
    /\ UNCHANGED <<idxVars, upVars, dateRange, tokVars, tz, fnVars>>

\* CommitAnalytics.tsx:111-139: the rest of fetchCommitData, once the
\* response (and its body) has arrived
fetchCommitDataDone(request, response) ==
    /\ BagIn(request, inflight)
    /\ inflight' = inflight (-) SetToBag({request})
    /\ IF Ok(response)
       THEN /\ analytics' = processCommitData(response.body, request.range)
            /\ caError' = caError
       ELSE /\ analytics' = analytics
            /\ caError' = commitError(response)
    /\ loading' = FALSE
    /\ renderChildren(CurrentView, View(TRUE, loading', caError', analytics'),
                      teams[selectedTeam].GitHubURL.v)
    /\ last' = Did(IF Ok(response) THEN "commitsLoaded" ELSE "commitsFailed", 0)
    /\ UNCHANGED <<idxVars, upVars, dateRange, tokVars, tz, fnVars>>


FetchedEvents == {<<Event("PushEvent", "alice", NowTick)>>}

EventResponses ==
    {Response(200, None, e) : e \in FetchedEvents}
    \cup {Response(st, None, <<>>) : st \in {0, 404}}

RepositoryResponses ==
    {Response(200, None, [full_name |-> <<"a", "/", "b">>])}
    \cup {Response(st, None, NoRepoData) : st \in {0, 404}}

\* part_000:96-98, 105-107
activityError(response) ==
    IF response.status = 0 THEN TransportError
    ELSE <<"Failed to fetch events: ", response.status>>

\* part_002:75-77, 81-83
repositoryError(response) ==
    IF response.status = 0 THEN TransportError
    ELSE <<"Failed to fetch repository info: ", response.status>>

\* part_000:94-110: the rest of fetchGitActivity
fetchGitActivityDone(response) ==
    /\ activity.mounted /\ activity.pending > 0
    /\ activity' =
         IF Ok(response)
         THEN [activity EXCEPT !.metrics = processGitEvents(response.body),
                               !.loading = FALSE, !.pending = @ - 1]
         ELSE [activity EXCEPT !.error = activityError(response),
                               !.loading = FALSE, !.pending = @ - 1]
    /\ last' = Did(IF Ok(response) THEN "eventsLoaded" ELSE "eventsFailed", 0)
    /\ UNCHANGED <<idxVars, upVars, caVars, repoInfo, quality, tokVars, tz, fnVars>>

\* part_002:73-86: the rest of fetchRepositoryInfo
fetchRepositoryInfoDone(response) ==
    /\ repoInfo.mounted /\ repoInfo.pending > 0
    /\ repoInfo' =
         IF Ok(response)
         THEN [repoInfo EXCEPT !.repoData = response.body,
                               !.loading = FALSE, !.pending = @ - 1]
         ELSE [repoInfo EXCEPT !.error = repositoryError(response),
                               !.loading = FALSE, !.pending = @ - 1]
    /\ last' = Did(IF Ok(response) THEN "repositoryLoaded" ELSE "repositoryFailed", 0)
    /\ UNCHANGED <<idxVars, upVars, caVars, activity, quality, tokVars, tz, fnVars>>

\* the README of the repository: found, not found, the request failed
ReadmeResponses ==
    {Response(200, None, <<"IyBS">>), Response(404, None, <<>>),
     Response(0, None, <<>>)}

\* CommitQualityAnalysis.tsx:88-167: the rest of analyzeCommitQuality, once
\* the README response has arrived, for the call that analyses commits
analyzeCommitQualityDone(commits, response) ==
    /\ quality.mounted /\ BagIn(commits, quality.pending)
    /\ LET readme == readReadme(response)
       IN quality' =
            [quality EXCEPT !.pending = @ (-) SetToBag({commits}),
                            !.metrics = analyzeCommits(commits, readme.hasReadme,
                                                       readme.readmeContent),
                            !.loading = FALSE]
    /\ last' = Did("qualityAnalyzed", 0)
    /\ UNCHANGED <<idxVars, upVars, caVars, activity, repoInfo, tokVars, tz, fnVars>>

\* part_000:222-237 and part_002:92-110: what a child renders
ChildView(child, data) ==
    IF ~child.mounted THEN "none"
    ELSE IF child.loading THEN "skeleton"
    ELSE IF child.error # <<>> \/ data THEN "null"
    ELSE "results"

ActivityView == ChildView(activity, activity.mounted /\ activity.metrics = NoMetrics)
RepositoryView == ChildView(repoInfo, repoInfo.mounted /\ repoInfo.repoData = NoRepoData)

\* CommitQualityAnalysis.tsx:177-193
QualityView ==
    IF ~quality.mounted THEN "none"
    ELSE IF quality.loading THEN "skeleton"
    ELSE IF quality.metrics = NoQualityMetrics THEN "null"
    ELSE "results"

(***************************************************************************)
(* GitHubTokenManager                                                      *)
(***************************************************************************)

Token1 == <<"t", "1">>
Token2 == <<"t", "2">>
TokenInputs == {<<>>, <<" ">>, Token1, Token2}

\* Index.tsx:90 setGithubToken with, when the value changes under a mounted
\* CommitAnalytics, the effect of CommitAnalytics.tsx:221-223
onTokenChange(tok, op) ==
    /\ githubToken' = tok
    /\ IF Mounted /\ tok # githubToken
       THEN /\ BagCardinality(inflight) < MaxInflight
            /\ fetchCommitData(teams[selectedTeam], dateRange, tok)
            /\ analytics' = analytics
            /\ renderChildren(CurrentView,
                              View(TRUE, loading', caError', analytics'),
                              teams[selectedTeam].GitHubURL.v)
            /\ last' = Did(op, fetchSent(teams[selectedTeam]))
       ELSE /\ UNCHANGED <<analytics, loading, caError, inflight, subVars>>
            /\ last' = Did(op, 0)
    /\ UNCHANGED <<teams, selectedTeam, error, dateRange>>

\* GitHubTokenManager.tsx:118
setToken(value) ==
    /\ teams # <<>>
    /\ value # token
    /\ token' = value
    /\ last' = Did("setToken", 0)
    /\ UNCHANGED <<idxVars, upVars, caVars, subVars, tokenStatus, storage,
                   validating, tz, fnVars>>

\* GitHubTokenManager.tsx:37-44, up to the await
validateToken(tokenToValidate) ==
    IF Trim(tokenToValidate) = <<>>
    THEN tokenStatus' = "none" /\ validating' = validating
    ELSE /\ tokenStatus' = "checking"
         /\ validating' = validating (+) SetToBag({tokenToValidate})

\* GitHubTokenManager.tsx:70-72; the button is disabled for a blank input
\* and while checking (line 133)
handleTokenSubmit ==
    /\ teams # <<>>
    /\ Trim(token) # <<>> /\ tokenStatus # "checking"
    /\ validateToken(token)
    /\ last' = Did("handleTokenSubmit", 0)
    /\ UNCHANGED <<idxVars, upVars, caVars, subVars, token, storage, tz, fnVars>>

validateTokenDoneKeeps(tokenToValidate, status) ==
    /\ BagIn(tokenToValidate, validating)
    /\ validating' = validating (-) SetToBag({tokenToValidate})
    /\ IF status \in 200..299
       THEN /\ tokenStatus' = "valid"
            /\ storage' = tokenToValidate
            /\ onTokenChange(tokenToValidate, "tokenValid")
       ELSE /\ tokenStatus' = "invalid"
            /\ storage' = <<>>
            /\ onTokenChange(githubToken, "tokenInvalid")
    /\ UNCHANGED <<upVars, token, tz, fnVars>>

validateTokenDoneMutant(tokenToValidate, status) ==
    /\ BagIn(tokenToValidate, validating)
    /\ validating' = validating (-) SetToBag({tokenToValidate})
    /\ IF status \in 200..299
       THEN /\ tokenStatus' = "valid"
            /\ storage' = tokenToValidate
            /\ onTokenChange(tokenToValidate, "tokenValid")
       ELSE /\ tokenStatus' = "invalid"
            /\ storage' = storage
            /\ onTokenChange(<<>>, "tokenInvalid")
    /\ UNCHANGED <<upVars, token, tz, fnVars>>

\* GitHubTokenManager.tsx:46-67: the rest of validateToken; status 0 is the
\* rejected fetch
validateTokenDone(tokenToValidate, status) ==
    /\ BagIn(tokenToValidate, validating)
    /\ validating' = validating (-) SetToBag({tokenToValidate})
    /\ IF status \in 200..299
       THEN /\ tokenStatus' = "valid"
            /\ storage' = tokenToValidate
            /\ onTokenChange(tokenToValidate, "tokenValid")
       ELSE /\ tokenStatus' = "invalid"
            /\ storage' = <<>>
            /\ onTokenChange(<<>>, "tokenInvalid")
    /\ UNCHANGED <<upVars, token, tz, fnVars>>

handleClearTokenMutant ==
    /\ teams # <<>>
    /\ tokenStatus = "valid"
    /\ token' = <<>>
    /\ tokenStatus' = "none"
    /\ storage' = storage
    /\ onTokenChange(<<>>, "handleClearToken")
    /\ UNCHANGED <<upVars, validating, tz, fnVars>>

\* GitHubTokenManager.tsx:74-79; the button exists while the status is valid
handleClearToken ==
    /\ teams # <<>>
    /\ tokenStatus = "valid"
    /\ token' = <<>>
    /\ tokenStatus' = "none"
    /\ storage' = <<>>
    /\ onTokenChange(<<>>, "handleClearToken")
    /\ UNCHANGED <<upVars, validating, tz, fnVars>>

(***************************************************************************)
(* The dashboard after a roster has been loaded                            *)
(***************************************************************************)

Team(name, url) == [TeamName |-> Str(name), GitHubURL |-> Str(url)]

\* a roster the Roster Loader delivers: a repository and a URL with one path
\* segment
Roster == <<Team(<<"A">>, GoodUrl), Team(<<"B">>, OneSegmentUrl)>>

\* the ranges picked in the dashboard
PickedRanges == {[from |-> LocalMidnight(LocalToday - 1), to |-> NoDate]}

\* handleDataLoaded has run; GitHubTokenManager is mounted and its effect
\* (lines 29-35) has read the token a previous session may have stored
InitDashboardScreen ==
    /\ teams = Roster /\ selectedTeam = 0 /\ error = None /\ githubToken = <<>>
    /\ isProcessing = FALSE /\ uploadedFile = FileName /\ file = NoFile
    /\ analytics = NoAnalytics /\ loading = TRUE /\ caError = <<>>
    /\ dateRange = NoRange /\ inflight = EmptyBag
    /\ activity = NotMounted /\ repoInfo = NotMounted /\ quality = NotMounted
    /\ storage \in {<<>>, Token1}
    /\ token = storage
    /\ tokenStatus = IF storage = <<>> THEN "none" ELSE "checking"
    /\ validating = IF storage = <<>> THEN EmptyBag ELSE SetToBag({storage})
    /\ tz = 0 /\ arg = NoArg /\ res = NoRes
    /\ last = Did("onDataLoaded", 0)

NextDashboard ==
    \/ \E i \in 1..Len(teams) : handleTeamSelect(i)
    \/ \E r \in PickedRanges : setDateRange(r)
    \/ tryAgain
    \/ refresh
    \/ \E q \in DOMAIN inflight : \E r \in CommitResponses : fetchCommitDataDone(q, r)
    \/ \E r \in EventResponses : fetchGitActivityDone(r)
    \/ \E r \in RepositoryResponses : fetchRepositoryInfoDone(r)
    \/ \E c \in (IF quality.mounted THEN DOMAIN quality.pending ELSE {}) :
          \E r \in ReadmeResponses : analyzeCommitQualityDone(c, r)
    \/ \E v \in {<<" ">>} : setToken(v)
    \/ handleTokenSubmit
    \/ \E t \in DOMAIN validating : \E st \in {200, 401, 0} : validateTokenDone(t, st)
    \/ handleClearToken

SpecDashboard == InitDashboardScreen /\ [][NextDashboard]_vars

(***************************************************************************)
(* Claims on the dashboard                                                 *)
(***************************************************************************)

\* the error kind the claim assigns to a response that is not ok
ErrorKind(response) ==
    CASE response.status = 404 -> NotFoundOrPrivateError
      [] response.status = 401 -> InvalidCredentialError
      [] response.status = 403 /\ response.remaining = "0" -> RateLimitedError
      [] response.status = 403 /\ response.remaining # "0" -> ForbiddenError
      [] OTHER -> GenericApiError(response.status)

\* C5: for every response of the commit request that is not a success,
\* fetchCommitData reports the one error kind its status determines: 404
\* NotFoundOrPrivateError, 401 InvalidCredentialError, 403 RateLimitedError
\* when the remaining-quota header is "0" and ForbiddenError otherwise, any
\* other status GenericApiError with the status code.
C5_ErrorKinds ==
    [][\A q \in DOMAIN inflight : \A r \in CommitResponses :
          fetchCommitDataDone(q, r) /\ ~Ok(r) /\ r.status # 0
              => caError' = ErrorKind(r)]_vars

\* a 403 whose remaining quota is not "0" has been reported as forbidden
C5_Witness ==
    /\ last.op = "commitsFailed"
    /\ caError = ForbiddenError
    /\ CurrentView = "error"

\* the URL of the selected team does not name a repository
SelectedUrlInvalid ==
    Mounted /\ ~extractRepoInfo(teams[selectedTeam].GitHubURL.v).ok

\* C6: after a commit, event or repository-info fetch that fails (invalid
\* URL, status that is not a success, transport failure) the component that
\* started it has loading = false and a non-empty error, and renders no
\* aggregated results, whether or not an earlier fetch has delivered some.
C6_FailedFetch ==
    /\ last.op = "commitsFailed" \/ SelectedUrlInvalid =>
          ~loading /\ caError # <<>> /\ CurrentView = "error"
    /\ last.op = "eventsFailed" =>
          ~activity.loading /\ activity.error # <<>> /\ ActivityView = "null"
    /\ last.op = "repositoryFailed" =>
          ~repoInfo.loading /\ repoInfo.error # <<>> /\ RepositoryView = "null"

\* a commit fetch has failed after an earlier one had delivered analytics
C6_Witness ==
    /\ last.op = "commitsFailed"
    /\ analytics # NoAnalytics
    /\ CurrentView = "error"

\* the handlers a user action or a change of the credential runs
UserActions ==
    {"handleTeamSelect", "setDateRange", "tryAgain", "refresh",
     "tokenValid", "tokenInvalid", "handleClearToken"}

\* the commit requests a step adds
Issued(before, after) ==
    {q \in DOMAIN after :
        CopiesIn(q, after) > (IF q \in DOMAIN before THEN CopiesIn(q, before) ELSE 0)}

\* C7: there are no automatic retries: a commit request is issued only by a
\* user action (Try Again, Refresh, team selection, date-range change) or a
\* change of the credential, never by the completion of a fetch, and Try
\* Again issues exactly one fetch, for the current team, window and
\* credential (which sends no request when the URL is invalid).
C7_NoAutomaticRetry ==
    [][/\ Issued(inflight, inflight') # {} => last'.op \in UserActions
       /\ caError # <<>> /\ Issued(inflight, inflight') # {} =>
             last'.op \in UserActions \ {"refresh"}
       /\ last'.op \in {"commitsFailed", "commitsLoaded"} =>
             BagCardinality(inflight') = BagCardinality(inflight) - 1
       /\ tryAgain =>
             LET info == extractRepoInfo(teams[selectedTeam].GitHubURL.v)
                 request == [owner |-> info.owner, repo |-> info.repo,
                             since |-> since(dateRange), until |-> until(dateRange),
                             authorization |-> githubToken, range |-> dateRange]
             IN IF info.ok
                THEN inflight' = inflight (+) SetToBag({request})
                ELSE inflight' = inflight]_vars

\* Try Again after a failed fetch has sent its one request
C7_Witness ==
    /\ last.op = "tryAgain" /\ last.sent = 1
    /\ loading /\ caError = <<>>
    /\ BagCardinality(inflight) = 1

(***************************************************************************)
(* The Repository Locator Parser applied to the URL of a team              *)
(***************************************************************************)

\* the roster holds one team with a URL string; the harness holds the string
InitUrl ==
    /\ arg \in {[githubUrl |-> u] : u \in UrlStrings}
    /\ teams = <<Team(<<"A">>, arg.githubUrl)>>
    /\ selectedTeam = 0 /\ error = None /\ githubToken = <<>>
    /\ isProcessing = FALSE /\ uploadedFile = FileName /\ file = NoFile
    /\ InitDashboard
    /\ storage = <<>>
    /\ tz = 0 /\ res = NoRes
    /\ last = Did("onDataLoaded", 0)

\* the four copies of extractRepoInfo, applied to the same string
applyExtractRepoInfo ==
    /\ ~res.done
    /\ res' = [done |-> TRUE,
               commits |-> extractRepoInfo(arg.githubUrl),
               quality |-> extractRepoInfoQuality(arg.githubUrl),
               activity |-> extractRepoInfoActivity(arg.githubUrl),
               repository |-> extractRepoInfoRepository(arg.githubUrl)]
    /\ last' = Did("extractRepoInfo", 0)
    /\ UNCHANGED <<idxVars, upVars, dashVars, tz, arg>>

NextUrl ==
    \/ applyExtractRepoInfo
    \/ \E i \in 1..Len(teams) : handleTeamSelect(i)

SpecUrl == InitUrl /\ [][NextUrl]_vars

\* the positions at which a segment of path starts: a character other than
\* "/" that follows a "/" or starts the path
SegmentStarts(path) ==
    {i \in 1..Len(path) : path[i] # "/" /\ (i = 1 \/ path[i - 1] = "/")}

\* the segment that starts at i: up to the character before the next "/"
SegmentAt(path, i) ==
    LET end == CHOOSE j \in i..Len(path) :
                   /\ \A k \in i..j : path[k] # "/"
                   /\ j = Len(path) \/ path[j + 1] = "/"
    IN SubSeq(path, i, end)

\* the k-th non-empty segment of path
Segment(path, k) ==
    SegmentAt(path, CHOOSE i \in SegmentStarts(path) :
                        Cardinality({j \in SegmentStarts(path) : j < i}) = k - 1)

\* what the claim says of a URL string
Located(githubUrl) ==
    LET url == NewURL(githubUrl)
    IN IF ~url.ok \/ Cardinality(SegmentStarts(url.pathname)) < 2
       THEN InvalidUrl
       ELSE [ok |-> TRUE, owner |-> Segment(url.pathname, 1),
             repo |-> Segment(url.pathname, 2)]

\* C4: extractRepoInfo depends on its URL string only: a string that does not
\* parse as a URL, or whose path has fewer than two non-empty segments, fails
\* with InvalidUrlError and no request is issued; otherwise owner is the
\* first and repository the second segment; the copies in the commit,
\* quality, event and repository-info components give the same result.
C4_ExtractRepoInfo ==
    LET located == Located(arg.githubUrl)
    IN /\ res.done =>
             /\ res.commits = located
             /\ res.quality = located
             /\ res.activity = located
             /\ res.repository = located
       /\ Mounted =>
             IF located.ok
             THEN /\ BagCardinality(inflight) = 1
                  /\ \A q \in DOMAIN inflight :
                        q.owner = located.owner /\ q.repo = located.repo
             ELSE inflight = EmptyBag /\ caError = InvalidUrlError /\ ~loading

\* a URL that parses and has one path segment: all four copies fail and the
\* fetch that the selection of the team starts sends nothing
C4_Witness ==
    /\ res.done /\ Mounted
    /\ NewURL(arg.githubUrl).ok
    /\ Cardinality(SegmentStarts(NewURL(arg.githubUrl).pathname)) = 1
    /\ ~res.commits.ok
    /\ inflight = EmptyBag

(***************************************************************************)
(* The Quality Scorer applied to the commits and the README of a response  *)
(***************************************************************************)

MaxMessages == 3

\* commit messages: empty, blank, short, with a body, with keywords of
\* several patterns, with a keyword inside a word, with a blank second
\* line, of 9, 10, 20 and 21 characters
\* commit messages: empty, blank, short, with several lines, with keywords
\* of several buckets, and of 10, 20 and 21 characters
Message ==
    [empty |-> <<>>,
     blank |-> <<" ", " ", "\n", " ">>,
     fix_bug |-> <<"f", "i", "x", " ", "b", "u", "g">>,
     described |-> <<"A", "d", "d", " ", "n", "e", "w", " ", "f", "e", "a", "t", "u", "r", "e", "\n", "\n", "D", "e", "t", "a", "i", "l", "e", "d", " ", "b", "o", "d", "y">>,
     test_fix |-> <<"u", "p", "d", "a", "t", "e", " ", "t", "e", "s", "t", " ", "a", "n", "d", " ", "f", "i", "x">>,
     spec_docs |-> <<"S", "p", "e", "c", " ", "f", "o", "r", " ", "D", "o", "c", "s">>,
     address |-> <<"a", "d", "d", "r", "e", "s", "s", " ", "r", "e", "v", "i", "e", "w">>,
     lint_style |-> <<"l", "i", "n", "t", "\n", " ", "\n", "s", "t", "y", "l", "e">>,
     blank_line |-> <<"n", "i", "n", "e", " ", "c", "h", "a", "r", "\n", " ", " ", "\n">>,
     ten |-> <<"t", "e", "n", " ", "c", "h", "a", "r", "s", "!">>,
     twenty |-> <<"t", "w", "e", "n", "t", "y", " ", "c", "h", "a", "r", "a", "c", "t", "e", "r", "s", " ", "o", "k">>,
     twenty_one |-> <<"c", "l", "e", "a", "n", "u", "p", " ", "o", "f", " ", "o", "l", "d", " ", "c", "a", "c", "h", "e", "s">>]

Messages == {Message[k] : k \in DOMAIN Message}

MessageCommits == {WithMessage(Commit(NowTick, "alice", "Alice"), m) : m \in Messages}

\* the README responses: an empty file, a short one, one longer than the
\* preview, content that is not base64, not found, the request failed
ScorerReadmeResponses ==
    {Response(200, None, <<>>),
     Response(200, None, <<"IyBS">>),
     Response(200, None, [i \in 1..(PreviewLength \div 3 + 1) |-> "YWJj"]),
     Response(200, None, <<"IyBS", "....">>),
     Response(404, None, <<>>),
     Response(0, None, <<>>)}

\* n commits: a short message, a described one and an empty one in turn
ManyCommits(n) ==
    [i \in 1..n |->
        WithMessage(Commit(NowTick, "alice", "Alice"),
                    <<Message.fix_bug, Message.described, Message.empty>>[(i % 3) + 1])]

\* every commit sequence with and without README, every README response
\* with the commit sequences of one message, and sequences of as many
\* commits as are shown as recent, and of more
ScorerInputs ==
    {[commits |-> c, readme |-> r] :
        c \in SeqUpTo(MessageCommits, MaxMessages),
        r \in {x \in ScorerReadmeResponses : x.body = <<"IyBS">> \/ x.status = 404}}
    \cup {[commits |-> c, readme |-> r] :
        c \in SeqUpTo(MessageCommits, 1), r \in ScorerReadmeResponses}
    \cup {[commits |-> ManyCommits(n), readme |-> Response(404, None, <<>>)] :
        n \in RecentCommits..(RecentCommits + 2)}

\* the dashboard with one repository; the harness holds the commits and the
\* README response the server will answer with
InitScorer ==
    /\ arg \in ScorerInputs
    /\ teams = <<Team(<<"A">>, GoodUrl)>>
    /\ selectedTeam = 0 /\ error = None /\ githubToken = <<>>
    /\ isProcessing = FALSE /\ uploadedFile = FileName /\ file = NoFile
    /\ InitDashboard
    /\ storage = <<>>
    /\ tz = 0 /\ res = NoRes
    /\ last = Did("onDataLoaded", 0)

NextScorer ==
    \/ \E i \in 1..Len(teams) : handleTeamSelect(i)
    \/ \E q \in DOMAIN inflight :
          fetchCommitDataDone(q, Response(200, None, arg.commits))
    \/ \E c \in (IF quality.mounted THEN DOMAIN quality.pending ELSE {}) :
          analyzeCommitQualityDone(c, arg.readme)

SpecScorer == InitScorer /\ [][NextScorer]_vars

(***************************************************************************)
(* Claims on the Quality Scorer                                            *)
(***************************************************************************)

\* the score the component shows
Score == qualityScore(quality.metrics)

\* the README request was answered with a success
ReadmeFound == arg.readme.status \in 200..299

\* message without its leading and trailing white space
Trimmed(m) ==
    LET ink == {i \in 1..Len(m) : m[i] \notin Whitespace}
    IN IF ink = {} THEN <<>>
       ELSE SubSeq(m, CHOOSE i \in ink : \A j \in ink : i <= j,
                      CHOOSE i \in ink : \A j \in ink : i >= j)

\* the number of lines of m that are not blank: the characters that are the
\* first one of their line that is not white space
NonBlankLines(m) ==
    Cardinality({i \in 1..Len(m) :
        /\ m[i] \notin Whitespace
        /\ \A j \in 1..(i - 1) :
              (\A k \in j..(i - 1) : m[k] # "\n") => m[j] \in Whitespace})

\* the commits the Quality Scorer is given: its commits prop
Scored == analytics.recentCommits

TrimmedMessages == [i \in 1..Len(Scored) |-> Trimmed(Scored[i].message)]
Total == Len(Scored)
Empty == Cardinality({i \in 1..Total : Len(TrimmedMessages[i]) = 0})
Short == Cardinality({i \in 1..Total : Len(TrimmedMessages[i]) \in 1..9})
Described == Cardinality({i \in 1..Total : NonBlankLines(TrimmedMessages[i]) > 1})
TotalLength == SumLengths(TrimmedMessages)

\* round(40 * d / t + 30 * n / t + bonus), a half rounded up
Formula(d, n, t, bonus) == (2 * (40 * d + 30 * n) + t) \div (2 * t) + bonus

\* C12: for every commit sequence and README flag the quality score is an
\* integer with 0 <= score <= 100.
C12_ScoreRange ==
    QualityView = "results" => Score \in 0..100

\* every commit described and long, README present: the score is 100
C12_Witness ==
    /\ QualityView = "results"
    /\ Total = 3 /\ Described = 3 /\ ReadmeFound
    /\ Score = 100

\* C13 as stated: the score is round(40 * described / total + 30 * (total -
\* empty - short) / total + 20 * [hasReadme] + 10 * [avgMessageLength > 20])
\* with total floored at 1, empty, short and described counted over the
\* trimmed messages and avgMessageLength their mean length.
C13_AsStated ==
    QualityView = "results" =>
        Score = Formula(Described, Total - Empty - Short, Max(Total, 1),
                        (IF ReadmeFound THEN 20 ELSE 0)
                        + (IF TotalLength > 20 * Total THEN 10 ELSE 0))

\* C13: as stated, with avgMessageLength the mean length rounded to the
\* nearest integer (a half rounded up), so that the 10 points need a mean of
\* at least 20.5.
C13_Score ==
    QualityView = "results" =>
        Score = Formula(Described, Total - Empty - Short, Max(Total, 1),
                        (IF ReadmeFound THEN 20 ELSE 0)
                        + (IF 2 * TotalLength >= 41 * Total THEN 10 ELSE 0))

\* three messages of 21, 20 and 20 characters: the mean is above 20 and its
\* rounded value is not
C13_Witness ==
    /\ QualityView = "results"
    /\ Total = 3 /\ TotalLength = 61
    /\ quality.metrics.averageMessageLength = 20

\* C14 as stated: given an empty commit sequence the Quality Scorer does not
\* throw and yields metrics with described = empty = short = 0 and a score
\* computed with total floored at 1.
C14_AsStated ==
    quality.mounted /\ arg.commits = <<>> =>
        /\ QualityView = "results"
        /\ quality.metrics.commitsWithDescription = 0
        /\ quality.metrics.emptyMessages = 0
        /\ quality.metrics.shortMessages = 0
        /\ Score = IF quality.metrics.hasReadme THEN 20 ELSE 0

RECURSIVE SumPatterns(_, _)
SumPatterns(counts, keys) ==
    IF keys = {} THEN 0
    ELSE LET k == CHOOSE x \in keys : TRUE
         IN counts[k] + SumPatterns(counts, keys \ {k})

\* C15: every commit message increments exactly one of the seven pattern
\* buckets fix, feat, refactor, docs, test, style, other, so the seven counts
\* add up to totalCommits.
C15_PatternsSum ==
    QualityView = "results" =>
        /\ DOMAIN quality.metrics.commitPatterns
              = {"fix", "feat", "refactor", "docs", "test", "style", "other"}
        /\ SumPatterns(quality.metrics.commitPatterns,
                       DOMAIN quality.metrics.commitPatterns)
              = quality.metrics.totalCommits
        /\ quality.metrics.totalCommits = Total

\* three commits in three buckets, one of them other
C15_Witness ==
    /\ QualityView = "results" /\ Total = 3
    /\ quality.metrics.commitPatterns["other"] = 1
    /\ quality.metrics.commitPatterns["fix"] = 1
    /\ quality.metrics.commitPatterns["docs"] = 1

\* the same letter, whatever its case
CasePairs == {<<UpperCase[k], LowerCase[k]>> : k \in 1..26}

SameLetter(a, b) ==
    a = b \/ <<a, b>> \in CasePairs \/ <<b, a>> \in CasePairs

\* keyword occurs in m as a case-insensitive substring
Occurs(keyword, m) ==
    \E i \in 1..Len(m) :
        /\ i + Len(keyword) - 1 <= Len(m)
        /\ \A j \in 1..Len(keyword) : SameLetter(m[i + j - 1], keyword[j])

\* the buckets in their order of precedence, each with its keywords
Precedence ==
    <<[bucket |-> "fix", keywords |-> {Keyword.fix, Keyword.bug, Keyword.patch}],
      [bucket |-> "feat", keywords |-> {Keyword.feat, Keyword.add, Keyword.new}],
      [bucket |-> "refactor", keywords |-> {Keyword.refactor, Keyword.cleanup, Keyword.reorganize}],
      [bucket |-> "docs", keywords |-> {Keyword.doc, Keyword.readme, Keyword.comment}],
      [bucket |-> "test", keywords |-> {Keyword.test, Keyword.spec}],
      [bucket |-> "style", keywords |-> {Keyword.style, Keyword.format, Keyword.lint}]>>

Matches(m) == {k \in 1..6 : \E w \in Precedence[k].keywords : Occurs(w, m)}

\* the first bucket with a keyword in m, other when there is none
Bucket(m) ==
    LET matches == Matches(m)
    IN IF matches = {} THEN "other"
       ELSE Precedence[CHOOSE k \in matches : \A l \in matches : k <= l].bucket

\* the number of messages of each bucket among the first n
RECURSIVE Counted(_)
Counted(n) ==
    IF n = 0
    THEN [b \in {"fix", "feat", "refactor", "docs", "test", "style", "other"} |-> 0]
    ELSE [Counted(n - 1) EXCEPT ![Bucket(Scored[n].message)] = @ + 1]

\* C16: a message counts in the first bucket, in the order fix/bug/patch,
\* feat/add/new, refactor/cleanup/reorganize, doc/readme/comment, test/spec,
\* style/format/lint, one of whose keywords occurs in it as a
\* case-insensitive substring, and in other only when no keyword occurs; a
\* message with keywords of several buckets counts in the earliest only.
C16_FirstBucket ==
    QualityView = "results" =>
        quality.metrics.commitPatterns = Counted(Total)

\* messages with keywords of two buckets, one in upper case, and a keyword
\* inside a word
C16_Witness ==
    /\ QualityView = "results"
    /\ [i \in 1..Total |-> Scored[i].message]
          = <<Message.test_fix, Message.spec_docs, Message.address>>
    /\ quality.metrics.commitPatterns["fix"] = 1
    /\ quality.metrics.commitPatterns["docs"] = 1
    /\ quality.metrics.commitPatterns["feat"] = 1
    /\ quality.metrics.commitPatterns["test"] = 0

\* the three messages "", "fix bug" and "Add new feature", a blank line,
\* "Detailed body", analysed without README
Scenario ==
    /\ QualityView = "results"
    /\ [i \in 1..Total |-> Scored[i].message]
          = <<Message.empty, Message.fix_bug, Message.described>>
    /\ ~ReadmeFound

\* C17 as stated: the scenario yields empty = 1, short = 0, described = 1,
\* fix = 1 and feat = 1, and the score is the value of the formula with
\* hasReadme = false.
C17_AsStated ==
    Scenario =>
        /\ quality.metrics.emptyMessages = 1
        /\ quality.metrics.shortMessages = 0
        /\ quality.metrics.commitsWithDescription = 1
        /\ quality.metrics.commitPatterns["fix"] = 1
        /\ quality.metrics.commitPatterns["feat"] = 1
        /\ ~quality.metrics.hasReadme
        /\ Score = Formula(1, 3 - 1 - 0, 3, 0)

\* C17: the scenario yields empty = 1, short = 1 ("fix bug" has 7
\* characters), described = 1, fix = 1, feat = 1 and other = 1, and the score
\* is the value of the formula with hasReadme = false, 23.
C17_Scenario ==
    Scenario =>
        /\ quality.metrics.emptyMessages = 1
        /\ quality.metrics.shortMessages = 1
        /\ quality.metrics.commitsWithDescription = 1
        /\ quality.metrics.commitPatterns["fix"] = 1
        /\ quality.metrics.commitPatterns["feat"] = 1
        /\ quality.metrics.commitPatterns["other"] = 1
        /\ ~quality.metrics.hasReadme
        /\ Score = Formula(1, 3 - 1 - 1, 3, 0)
        /\ Score = 23

\* the scenario has been analysed after a README request that found nothing
C17_Witness == Scenario /\ arg.readme.status = 404

C29_RecentCommits ==
    /\ analytics # NoAnalytics =>
          /\ analytics.totalCommits = Len(arg.commits)
          /\ Len(analytics.recentCommits) = Min(10, Len(arg.commits))
          /\ \A i \in 1..Len(analytics.recentCommits) :
                analytics.recentCommits[i] = arg.commits[i]
    /\ QualityView = "results" =>
          /\ quality.metrics.totalCommits = Min(10, Len(arg.commits))
          /\ quality.metrics.totalCommits <= analytics.totalCommits
          /\ quality.metrics.emptyMessages
                = Cardinality({i \in 1..Min(10, Len(arg.commits)) :
                      Trimmed(arg.commits[i].message) = <<>>})

\* twelve commits fetched, ten of them scored
C29_Witness ==
    /\ QualityView = "results"
    /\ Len(arg.commits) = 12
    /\ analytics.totalCommits = 12
    /\ quality.metrics.totalCommits = 10
    /\ quality.metrics.emptyMessages = 3

(***************************************************************************)
(* The Event Aggregator applied to the events of one response              *)
(***************************************************************************)

MaxEvents == 2

\* events of the type tags of the switch and of one it does not name,
\* created now, on the first day of the last 30, and on the day before it
SampleEvents ==
    {Event(t, "alice", d) :
        t \in {"PushEvent", "PullRequestEvent", "PullRequestReviewEvent",
                "MergeEvent", "WatchEvent"},
        d \in {NowTick, AddDays(NowTick, -(ActivityDays - 1)),
                AddDays(NowTick, -ActivityDays)}}

\* more events than days and more actors than listed members: one of each
\* type tag in turn, on the last three days, by eleven actors in turn, two of
\* them with a login that is an array index
ManyEvents ==
    [i \in 1..(ActivityDays + 1) |->
        Event(<<"PushEvent", "PullRequestEvent", "PullRequestReviewEvent",
                "MergeEvent", "WatchEvent">>[(i % 5) + 1],
              <<"bob", "carol", "3", "dave", "erin", "12", "frank", "grace",
                "heidi", "ivan", "judy">>[(i % 11) + 1],
              AddDays(NowTick, -(i % 3)))]

EventInputs ==
    {[events |-> p \o e] : e \in SeqUpTo(SampleEvents, MaxEvents), p \in {<<>>, ManyEvents}}

InitEvents ==
    /\ InitIndex /\ InitDashboard
    /\ storage = <<>>
    /\ tz \in TzOffsets
    /\ arg \in EventInputs
    /\ res = NoRes
    /\ last = Did("init", 0)

\* fetchGitActivity, part_000:101-105: the response body goes through
\* processGitEvents
applyProcessGitEvents ==
    /\ ~res.done
    /\ res' = [done |-> TRUE, metrics |-> processGitEvents(arg.events)]
    /\ last' = Did("processGitEvents", 0)
    /\ UNCHANGED <<idxVars, upVars, dashVars, tz, arg>>

NextEvents == applyProcessGitEvents

SpecEvents == InitEvents /\ [][NextEvents]_vars

(***************************************************************************)
(* Claims on the Event Aggregator                                          *)
(***************************************************************************)

\* the events of the given type tags created on the given day (UTC)
EventsOn(day, tags) ==
    Cardinality({i \in 1..Len(arg.events) :
        /\ arg.events[i].type \in tags
        /\ arg.events[i].created_at \in (day * TicksPerDay)..((day + 1) * TicksPerDay - 1)})

\* the events of the given type tags
EventsOf(tags) ==
    Cardinality({i \in 1..Len(arg.events) : arg.events[i].type \in tags})

\* C19: for every event sequence, the empty one and ones with more events
\* than days included, processGitEvents returns a daily histogram of exactly
\* 30 entries, one for each of the 30 days that end today (the day of the
\* event timestamps, UTC) in chronological order, and the entry of a day
\* without matching event has pushes = pulls = merges = 0.
C19_DailyHistogram ==
    res.done =>
        LET daily == res.metrics.dailyActivity
        IN /\ DOMAIN daily = 1..30
           /\ \A i \in 1..30 :
                 /\ daily[i].pushes = EventsOn(Today - 30 + i, {"PushEvent"})
                 /\ daily[i].pulls = EventsOn(Today - 30 + i, {"PullRequestEvent"})
                 /\ daily[i].merges
                       = EventsOn(Today - 30 + i, {"PullRequestReviewEvent", "MergeEvent"})
           /\ \A i \in 1..29 : daily[i + 1].date = daily[i].date + 1

\* more events than days, some on the first day of the 30 and some older,
\* and days without event
C19_Witness ==
    /\ res.done
    /\ Len(arg.events) > 30
    /\ res.metrics.dailyActivity[1].pushes = 1
    /\ res.metrics.dailyActivity[2].pushes = 0
    /\ res.metrics.dailyActivity[30].pushes > 1
    /\ \E i \in 1..Len(arg.events) : arg.events[i].created_at < (Today - 29) * TicksPerDay

\* C20: PushEvent counts in pushEvents, PullRequestEvent in
\* pullRequestEvents, PullRequestReviewEvent and MergeEvent in mergeEvents
\* and any other type tag in none; totalEvents is the number of input events,
\* so pushEvents + pullRequestEvents + mergeEvents <= totalEvents, with
\* equality exactly when no event has another tag.
C20_EventCounts ==
    res.done =>
        LET m == res.metrics
        IN /\ m.pushEvents = EventsOf({"PushEvent"})
           /\ m.pullRequestEvents = EventsOf({"PullRequestEvent"})
           /\ m.mergeEvents = EventsOf({"PullRequestReviewEvent"}) + EventsOf({"MergeEvent"})
           /\ m.totalEvents = Len(arg.events)
           /\ m.pushEvents + m.pullRequestEvents + m.mergeEvents <= m.totalEvents
           /\ m.pushEvents + m.pullRequestEvents + m.mergeEvents = m.totalEvents
                 <=> \A i \in 1..Len(arg.events) :
                        arg.events[i].type \in {"PushEvent", "PullRequestEvent",
                                                "PullRequestReviewEvent", "MergeEvent"}

\* reviews, merges and events of another tag among more than 30 events
C20_Witness ==
    /\ res.done
    /\ arg.events = ManyEvents
    /\ res.metrics.pushEvents = 6
    /\ res.metrics.pullRequestEvents = 7
    /\ res.metrics.mergeEvents = 12
    /\ res.metrics.totalEvents = 31

\* the actors of the input events
Actors == {arg.events[i].actor : i \in 1..Len(arg.events)}

\* the events of actor a with one of the given type tags
EventsBy(a, tags) ==
    Cardinality({i \in 1..Len(arg.events) :
        arg.events[i].actor = a /\ arg.events[i].type \in tags})

ActorTotal(a) ==
    EventsBy(a, {"PushEvent", "PullRequestEvent", "PullRequestReviewEvent", "MergeEvent"})

\* C21: memberActivity lists at most 10 actors (all of them when there are no
\* more than 10), each once, sorted by total descending; each total is the
\* actor's pushes + pulls + merges over the input events, and no actor left
\* out has a strictly larger total than a listed one.
C21_MemberActivity ==
    res.done =>
        LET listed == res.metrics.memberActivity
        IN /\ Len(listed) = Min(10, Cardinality(Actors))
           /\ \A i \in 1..Len(listed) :
                 /\ listed[i].member \in Actors
                 /\ listed[i].pushes = EventsBy(listed[i].member, {"PushEvent"})
                 /\ listed[i].pulls = EventsBy(listed[i].member, {"PullRequestEvent"})
                 /\ listed[i].merges
                       = EventsBy(listed[i].member, {"PullRequestReviewEvent", "MergeEvent"})
                 /\ listed[i].total
                       = listed[i].pushes + listed[i].pulls + listed[i].merges
           /\ \A i, j \in 1..Len(listed) :
                 i < j => /\ listed[i].total >= listed[j].total
                          /\ listed[i].member # listed[j].member
           /\ \A a \in Actors \ {listed[i].member : i \in 1..Len(listed)} :
                 \A i \in 1..Len(listed) : ActorTotal(a) <= listed[i].total

\* twelve actors with different totals: two are left out, and the first
\* listed one has more events than the last
C21_Witness ==
    /\ res.done
    /\ Cardinality(Actors) = 12
    /\ Len(res.metrics.memberActivity) = 10
    /\ res.metrics.memberActivity[1].total > res.metrics.memberActivity[10].total
    /\ \E a \in Actors :
          /\ \A i \in 1..10 : res.metrics.memberActivity[i].member # a
          /\ ActorTotal(a) = res.metrics.memberActivity[10].total

\* the position of a slot of the distribution
SlotRank(name) ==
    CASE name = "Pushes" -> 1 [] name = "Pull Requests" -> 2
      [] name = "Merges/Reviews" -> 3 [] OTHER -> 0

\* C22: eventDistribution contains, in the order Pushes, Pull Requests,
\* Merges/Reviews, exactly the slots whose count is greater than zero, each
\* with the value of its counter; leaving out a slot does not change
\* pushEvents, pullRequestEvents, mergeEvents or totalEvents.
C22_EventDistribution ==
    res.done =>
        LET m == res.metrics
            slots == m.eventDistribution
            counter == <<m.pushEvents, m.pullRequestEvents, m.mergeEvents>>
        IN /\ \A i \in 1..Len(slots) :
                 /\ SlotRank(slots[i].name) \in 1..3
                 /\ slots[i].value = counter[SlotRank(slots[i].name)]
                 /\ slots[i].value > 0
           /\ \A i, j \in 1..Len(slots) :
                 i < j => SlotRank(slots[i].name) < SlotRank(slots[j].name)
           /\ \A k \in 1..3 :
                 counter[k] > 0 => \E i \in 1..Len(slots) : SlotRank(slots[i].name) = k
           /\ m.pushEvents = EventsOf({"PushEvent"})
           /\ m.pullRequestEvents = EventsOf({"PullRequestEvent"})
           /\ m.mergeEvents = EventsOf({"PullRequestReviewEvent", "MergeEvent"})
           /\ m.totalEvents = Len(arg.events)

\* a push and a merge: the slot of the pull requests is left out, its
\* counter is 0
C22_Witness ==
    /\ res.done
    /\ Len(arg.events) = 2
    /\ res.metrics.pullRequestEvents = 0
    /\ Len(res.metrics.eventDistribution) = 2
    /\ res.metrics.eventDistribution[1].name = "Pushes"
    /\ res.metrics.eventDistribution[2].name = "Merges/Reviews"
    /\ res.metrics.eventDistribution[2].value = 1

(***************************************************************************)
(* The Credential Holder: GitHubTokenManager with Index and the commit     *)
(* fetch it feeds                                                          *)
(***************************************************************************)

\* localStorage.github_token when the page loads: nothing, a token, or a
\* value of white space (the storage is shared with everything of the origin)
StoredTokens == {<<>>, <<" ">>, Token1}

mountTokenMutant(savedToken) ==
    IF savedToken = <<>>
    THEN [token |-> <<>>, tokenStatus |-> "none", validating |-> EmptyBag]
    ELSE [token |-> savedToken, tokenStatus |-> "checking",
          validating |-> SetToBag({savedToken})]

\* GitHubTokenManager as mounted: its state (lines 23-25) after the effect
\* of lines 29-35, which puts a saved token in the input and calls
\* validateToken with it (lines 37-43, up to the await)
mountToken(savedToken) ==
    IF savedToken = <<>>
    THEN [token |-> <<>>, tokenStatus |-> "none", validating |-> EmptyBag]
    ELSE IF Trim(savedToken) = <<>>
    THEN [token |-> savedToken, tokenStatus |-> "none", validating |-> EmptyBag]
    ELSE [token |-> savedToken, tokenStatus |-> "checking",
          validating |-> SetToBag({savedToken})]

\* the state once the roster is loaded and GitHubTokenManager is mounted
InitTokenScreen ==
    /\ teams = Roster /\ selectedTeam = 0 /\ error = None /\ githubToken = <<>>
    /\ isProcessing = FALSE /\ uploadedFile = FileName /\ file = NoFile
    /\ analytics = NoAnalytics /\ loading = TRUE /\ caError = <<>>
    /\ dateRange = NoRange /\ inflight = EmptyBag
    /\ activity = NotMounted /\ repoInfo = NotMounted /\ quality = NotMounted
    /\ storage \in StoredTokens
    /\ token = mountToken(storage).token
    /\ tokenStatus = mountToken(storage).tokenStatus
    /\ validating = mountToken(storage).validating
    /\ tz = 0 /\ arg = NoArg /\ res = NoRes
    /\ last = Did("onDataLoaded", 0)

\* a commit request resolves, with no commits or with a refusal of the
\* credential
TokenCommitResponses == {Response(200, None, <<>>), Response(401, None, <<>>)}

commitRequestDone ==
    \E q \in DOMAIN inflight : \E r \in TokenCommitResponses :
        fetchCommitDataDone(q, r)

NextToken ==
    \/ \E v \in TokenInputs : setToken(v)
    \/ handleTokenSubmit
    \/ \E t \in DOMAIN validating : \E st \in {200, 401, 0} : validateTokenDone(t, st)
    \/ handleClearToken
    \/ \E i \in 1..Len(teams) : handleTeamSelect(i)
    \/ commitRequestDone

SpecToken == InitTokenScreen /\ [][NextToken]_vars

\* every outstanding commit request resolves or rejects: weak fairness of
\* commitRequestDone, which is enabled exactly while a request is in flight
\* (written without ENABLED, <>[]Enabled => []<><<A>>_vars)
SpecTokenFair ==
    SpecToken /\ (<>[](inflight # EmptyBag) => []<><<commitRequestDone>>_vars)

(***************************************************************************)
(* Claims on the Credential Holder                                         *)
(***************************************************************************)

Blank(t) == \A i \in 1..Len(t) : t[i] \in Whitespace

C24_Validate ==
    [][/\ handleTokenSubmit =>
             /\ ~Blank(token)
             /\ validating' = validating (+) SetToBag({token})
             /\ BagCardinality(validating') = 1
             /\ tokenStatus' = "checking"
             /\ storage' = storage /\ githubToken' = githubToken
       /\ \A t \in DOMAIN validating : \A st \in {200, 401, 0} :
             validateTokenDone(t, st) =>
                 /\ validating' = EmptyBag
                 /\ IF st = 200
                    THEN tokenStatus' = "valid" /\ storage' = t /\ githubToken' = t
                    ELSE tokenStatus' = "invalid" /\ storage' = <<>>
                         /\ githubToken' = <<>>
                 /\ Mounted /\ ~SelectedUrlInvalid /\ githubToken' # githubToken =>
                       \E q \in DOMAIN inflight' :
                           /\ q.authorization = githubToken'
                           /\ CopiesIn(q, inflight') = CopiesIn(q, inflight) + 1]_vars

\* the validation of a second token has failed while the first, valid one
\* was persisted: nothing is persisted
C24_Witness ==
    /\ last.op = "tokenInvalid"
    /\ token = Token2 /\ tokenStatus = "invalid"
    /\ storage = <<>> /\ githubToken = <<>>
    /\ \E q \in DOMAIN inflight : q.authorization = Token1

\* C25: clear() removes the persisted token, resets the state to "none",
\* empties the input and passes the empty credential to the fetchers.
C25_Clear ==
    [][handleClearToken =>
          /\ storage' = <<>>
          /\ tokenStatus' = "none"
          /\ token' = <<>>
          /\ githubToken' = <<>>
          /\ Mounted /\ ~SelectedUrlInvalid =>
                \E q \in DOMAIN inflight' :
                    /\ q.authorization = <<>>
                    /\ CopiesIn(q, inflight') = CopiesIn(q, inflight) + 1]_vars

\* the token has been cleared while a team was shown
C25_Witness ==
    /\ last.op = "handleClearToken" /\ last.sent = 1
    /\ storage = <<>> /\ githubToken = <<>> /\ tokenStatus = "none"
    /\ token = <<>>

\* C28: the credential that Index holds and gives to every fetch is empty or
\* a token whose most recent identity check succeeded, and when it is not
\* empty the persisted token equals it; a token that has been entered and not
\* validated, or whose validation failed, is never sent by a fetcher.
C28_Credential ==
    /\ [](githubToken # <<>> =>
             storage = githubToken /\ tokenStatus \in {"valid", "checking"})
    /\ [][/\ githubToken' # githubToken /\ githubToken' # <<>> =>
                /\ last'.op = "tokenValid"
                /\ BagIn(githubToken', validating)
                /\ ~BagIn(githubToken', validating')
          /\ last'.op = "tokenInvalid" => githubToken' = <<>>
          /\ \A q \in DOMAIN inflight' :
                CopiesIn(q, inflight') > CopiesIn(q, inflight) =>
                    q.authorization = githubToken']_vars

\* a second token has been entered and is being checked while the team's
\* commits are fetched with the first, valid one
C28_Witness ==
    /\ githubToken = Token1 /\ storage = Token1
    /\ token = Token2 /\ tokenStatus = "checking"
    /\ last.op = "handleTeamSelect" /\ last.sent = 1
    /\ \A q \in DOMAIN inflight : q.authorization = Token1

(***************************************************************************)
(* Claims on overlapping commit fetches                                    *)
(***************************************************************************)

\* what CommitAnalytics shows after the step
NextView == View(TRUE, loading', caError', analytics')

\* the step is the arrival of the response to request q
Resolves(q) ==
    /\ last'.op \in {"commitsLoaded", "commitsFailed"}
    /\ inflight' = inflight (-) SetToBag({q})

\* the errors a failed commit fetch can leave
CommitErrors == {commitError(r) : r \in {x \in CommitResponses : ~Ok(x)}}

\* C26 as stated: when two commit fetches overlap no response is discarded:
\* each response that resolves overwrites analytics or error, so that the
\* state displayed is that of the response that resolved last.
C26_AsStated ==
    [][\A q \in DOMAIN inflight : Resolves(q) =>
          IF last'.op = "commitsLoaded"
          THEN /\ \E c \in FetchedCommits :
                     analytics' = processCommitData(c, q.range)
               /\ NextView = "analytics"
          ELSE /\ caError' \in CommitErrors
               /\ NextView = "error"]_vars

\* C26: no response is discarded: each response that resolves ends the
\* placeholder and overwrites analytics (a success) or error (a failure),
\* whatever the selection is by then.  A failure is displayed; a success is
\* displayed unless an error is set at that moment, which stays displayed.
C26_LastWins ==
    [][\A q \in DOMAIN inflight : Resolves(q) =>
          /\ ~loading'
          /\ IF last'.op = "commitsLoaded"
             THEN /\ \E c \in FetchedCommits :
                        analytics' = processCommitData(c, q.range)
                  /\ caError' = caError
                  /\ NextView = IF caError = <<>> THEN "analytics" ELSE "error"
             ELSE /\ caError' \in CommitErrors
                  /\ caError' # <<>>
                  /\ analytics' = analytics
                  /\ NextView = "error"]_vars

\* the response to the request of the default range has resolved last and
\* its analytics are shown under the range picked since
C26_Witness ==
    /\ last.op = "commitsLoaded"
    /\ CurrentView = "analytics"
    /\ inflight = EmptyBag
    /\ dateRange \in PickedRanges
    /\ \E c \in FetchedCommits :
          /\ analytics = processCommitData(c, DefaultRange)
          /\ analytics # processCommitData(c, dateRange)

\* C27 as stated: whenever a fetch issued by a view is outstanding, the
\* loading flag of that view is true.
C27_AsStated ==
    /\ Mounted /\ inflight # EmptyBag => loading
    /\ activity.mounted => (activity.pending > 0 => activity.loading)
    /\ repoInfo.mounted => (repoInfo.pending > 0 => repoInfo.loading)
    /\ quality.mounted => (quality.pending # EmptyBag => quality.loading)

\* C27, what the code guarantees: the placeholder is shown from the start of
\* a fetch until the first response after it.
C27_LoadingUntilResponse ==
    [][Mounted /\ loading /\ inflight # EmptyBag /\ ~loading' =>
          last'.op \in {"commitsLoaded", "commitsFailed", "handleTeamSelect"}]_vars

\* C30: every commit fetch whose request resolves or rejects ends by setting
\* loading to false after having set analytics (success) or error (failure);
\* so, when every outstanding request completes, the view leaves the
\* placeholder and shows analytics or an error message.
C30_Settles ==
    /\ [][\A q \in DOMAIN inflight : Resolves(q) =>
             /\ ~loading'
             /\ IF last'.op = "commitsLoaded"
                THEN analytics' # NoAnalytics
                ELSE caError' # <<>>
             /\ NextView \in {"analytics", "error"}]_vars
    /\ (Mounted /\ loading) ~> (~loading /\ CurrentView \in {"analytics", "error"})
    /\ [](Mounted /\ inflight = EmptyBag =>
             ~loading /\ CurrentView \in {"analytics", "error"})

\* the last outstanding request has been refused and the error is shown
C30_Witness ==
    /\ last.op = "commitsFailed"
    /\ inflight = EmptyBag
    /\ ~loading /\ CurrentView = "error"
    /\ caError = InvalidCredentialError

====
